---- MODULE Spec2Model ----
(***************************************************************************)
(* A model of the GIMS automation MCP server: the HTTP transport core     *)
(* (gims_mcp/client.py), the response governor (gims_mcp/utils.py), the   *)
(* export serializer / import deserializer (gims_mcp/serializers.py) and  *)
(* the import tools (gims_mcp/tools/sync.py).                             *)
(*                                                                         *)
(* Strings of the source that are not ASCII (the Russian messages) are    *)
(* written as ASCII keys; every other literal is the source's.            *)
(***************************************************************************)
EXTENDS Integers, Sequences, FiniteSets, TLC

VARIABLES
    access_token,   \* GimsClient._access_token
    refresh_token,  \* GimsClient._refresh_token
    client,         \* GimsClient._client: the live connection context
    calls,          \* the request() calls: position, wire history, result
    close_call,     \* the close() call: idle, or suspended in aclose
    handled,        \* one _handle_response evaluation: response and outcome
    max_response_size,  \* utils._max_response_size, process-wide
    size_kb_set,    \* the argument of the last set_max_response_size, if any
    checked,        \* the last check_response_size call: arguments, the size_kb
                    \* last set before it, and its outcome
    tool_call,      \* the last tool invocation: tool, remote data and response
    import_call,    \* one import_* invocation: arguments, position, outcome
    remote,         \* the remote entities of the imported kind, as listed
    requests,       \* the client calls the import issued, in order
    round_trip,     \* one export and re-import: entity, document set, result
    reported,       \* one error detail that reached the caller: path, response, detail
    util_call,      \* one call of a pure function of utils.py: arguments and result
    stream,         \* one stream_sse call: position, clock, connections, events, outcome
    log_call        \* one get_script_execution_log call: position, clock, buffer, flags, outcome

transportVars == <<access_token, refresh_token, client, calls, close_call>>

classifyVars == <<handled>>

governorVars == <<max_response_size, size_kb_set, checked>>

toolVars == <<tool_call>>

importVars == <<import_call, remote, requests>>

serializerVars == <<round_trip>>

errorVars == <<reported>>

utilVars == <<util_call>>

streamVars == <<stream>>

logVars == <<log_call>>

vars ==
    <<transportVars, classifyVars, governorVars, toolVars, importVars,
      serializerVars, errorVars, utilVars, streamVars, logVars>>

\* What the actions of the transport core leave alone.
outsideTransport ==
    <<classifyVars, governorVars, toolVars, importVars, serializerVars,
      errorVars, utilVars, streamVars, logVars>>

\* What the actions of the response classification leave alone.
outsideClassify ==
    <<transportVars, governorVars, toolVars, importVars, serializerVars,
      errorVars, utilVars, streamVars, logVars>>

\* What the actions of the response governor leave alone.
outsideGovernor ==
    <<transportVars, classifyVars, toolVars, importVars, serializerVars,
      errorVars, utilVars, streamVars, logVars>>

\* What a tool invocation leaves alone, besides the governor's limit.
outsideTools ==
    <<transportVars, classifyVars, size_kb_set, checked, importVars,
      serializerVars, errorVars, utilVars, streamVars, logVars>>

\* What the steps of an import leave alone.
outsideImport ==
    <<transportVars, classifyVars, governorVars, toolVars, serializerVars,
      errorVars, utilVars, streamVars, logVars>>

\* What the serializers leave alone.
outsideSerializers ==
    <<transportVars, classifyVars, governorVars, toolVars, importVars,
      errorVars, utilVars, streamVars, logVars>>

\* What the reporting of an error detail leaves alone.
outsideErrors ==
    <<transportVars, classifyVars, governorVars, toolVars, importVars,
      serializerVars, utilVars, streamVars, logVars>>

\* What a call of a utility function leaves alone.
outsideUtils ==
    <<transportVars, classifyVars, governorVars, toolVars, importVars,
      serializerVars, errorVars, streamVars, logVars>>

\* What a step of the log stream leaves alone.
outsideStream ==
    <<transportVars, classifyVars, governorVars, toolVars, importVars,
      serializerVars, errorVars, utilVars, logVars>>

(***************************************************************************)
(* Transport core: GimsClient                                              *)
(***************************************************************************)

\* Number of request() calls that may be in flight on the one client.
NumCalls == 2

Calls == 1..NumCalls

\* Config.access_token / Config.refresh_token handed to the constructor.
ConfigAccessToken == "access0"

ConfigRefreshToken == "refresh0"

\* self._client = None
NoClient == [state |-> "none", auth |-> "none"]

\* httpx.AsyncClient(base_url=..., headers={"Authorization": f"Bearer {token}"})
NewClient(token) == [state |-> "open", auth |-> token]

\* The requests a caller may make: (method, url, json, params).
Requests ==
    { [method |-> "GET", url |-> "/scripts/search_code/", json |-> "None",
       params |-> "search_code=print"],
      [method |-> "POST", url |-> "/scripts/script/", json |-> "{name, code}",
       params |-> "None"] }

\* What goes on the wire for a request sent through a connection context.
Wire(req, ctx) ==
    [method |-> req.method, url |-> req.url, json |-> req.json,
     params |-> req.params, auth |-> ctx.auth]

(***************************************************************************)
(* Responses.  A response is (status, content-type header, body text).     *)
(***************************************************************************)

Statuses == {200, 201, 204, 302, 400, 401, 403, 404, 500}

ContentTypes ==
    {"application/json", "application/json; charset=utf-8", "text/html", ""}

Bodies == {"{\"id\": 1}", "[1]", "<html><title>Bad Gateway</title></html>", "oops", ""}

AllResponses == [status : Statuses, ctype : ContentTypes, body : Bodies]

\* "application/json" in content_type, for the header values of ContentTypes.
HasJsonContentType(ctype) ==
    ctype \in {"application/json", "application/json; charset=utf-8"}

\* response.json() succeeds (for the texts of Bodies, RefreshBodies and
\* LogUrlResponses).
IsJson(body) ==
    body \in {"{\"id\": 1}", "[1]", "{}", "[]",
              "{\"access\": \"access1\"}",
              "{\"access\": \"access1\", \"refresh\": \"refresh1\"}",
              "{\"refresh\": \"refresh1\"}",
              "{\"url\": [\"/logs/7/stream\"]}"}

\* response.json(): the parsed value of a JSON text.
JsonLoads(body) ==
    CASE body = "{\"id\": 1}" -> [type |-> "object", keys |-> {"id"}, id |-> 1]
      [] body = "[1]" -> [type |-> "array", items |-> <<1>>]
      [] body = "[]" -> [type |-> "array", items |-> <<>>]
      [] body = "{}" -> [type |-> "object", keys |-> {}]
      [] body = "{\"access\": \"access1\"}" ->
            [type |-> "object", keys |-> {"access"}, access |-> "access1"]
      [] body = "{\"access\": \"access1\", \"refresh\": \"refresh1\"}" ->
            [type |-> "object", keys |-> {"access", "refresh"},
             access |-> "access1", refresh |-> "refresh1"]
      [] body = "{\"refresh\": \"refresh1\"}" ->
            [type |-> "object", keys |-> {"refresh"}, refresh |-> "refresh1"]
      [] body = "{\"url\": [\"/logs/7/stream\"]}" ->
            [type |-> "object", keys |-> {"url"}, url |-> <<"/logs/7/stream">>]

NoneValue == [type |-> "None"]

\* Outcomes of a call: a returned value or a raised exception.
Return(value) ==
    [kind |-> "return", status |-> 0, message |-> "", value |-> value]

Raise(kind, status, message) ==
    [kind |-> kind, status |-> status, message |-> message, value |-> NoneValue]

Pending == [kind |-> "pending", status |-> 0, message |-> "", value |-> NoneValue]

\* _handle_response without the content-type validation of lines 155-162.
HandleResponseAnyContentType(response) ==
    IF response.status = 401
    THEN Raise("GimsApiError", 401, "Authentication failed")
    ELSE IF response.status = 403
    THEN Raise("GimsApiError", 403, "Permission denied")
    ELSE IF response.status = 404
    THEN Raise("GimsApiError", 404, "Not found")
    ELSE IF response.status >= 400
    THEN Raise("GimsApiError", response.status, "API error")
    ELSE IF response.status = 204
    THEN Return(NoneValue)
    ELSE IF ~IsJson(response.body)
    THEN Raise("GimsApiError", response.status, "Failed to parse JSON response")
    ELSE Return(JsonLoads(response.body))

\* GimsClient._handle_response
_handle_response(response) ==
    IF response.status = 401
    THEN Raise("GimsApiError", 401, "Authentication failed")
    ELSE IF response.status = 403
    THEN Raise("GimsApiError", 403, "Permission denied")
    ELSE IF response.status = 404
    THEN Raise("GimsApiError", 404, "Not found")
    ELSE IF response.status >= 400
    THEN Raise("GimsApiError", response.status, "API error")
    ELSE IF response.status = 204
    THEN Return(NoneValue)
    ELSE IF ~HasJsonContentType(response.ctype)
    THEN Raise("GimsApiError", response.status, "Invalid response format")
    ELSE IF ~IsJson(response.body)
    THEN Raise("GimsApiError", response.status, "Failed to parse JSON response")
    ELSE Return(JsonLoads(response.body))

(***************************************************************************)
(* Token refresh: GimsClient._refresh_access_token                         *)
(***************************************************************************)

\* Bodies the refresh endpoint may answer with.
RefreshBodies ==
    {"{\"access\": \"access1\"}",
     "{\"access\": \"access1\", \"refresh\": \"refresh1\"}",
     "{\"refresh\": \"refresh1\"}", "{}", "[]", "oops"}

RefreshResponses ==
    [status : {200}, ctype : {"application/json"}, body : RefreshBodies]
        \cup [status : {401}, ctype : {"application/json"}, body : {"{}"}]
        \cup [status : {502}, ctype : {"text/html"},
              body : {"<html><title>Bad Gateway</title></html>"}]

\* POST {config.url}/security/token/refresh/ with json={"refresh": token}
RefreshWire(token) ==
    [method |-> "POST", url |-> "/security/token/refresh/", refresh |-> token]

\* _refresh_access_token without the 401 case of lines 99-104.
RefreshFailureWithout401(response) ==
    IF response.status # 200
    THEN Raise("GimsApiError", response.status, "token_refresh_failed")
    ELSE IF ~IsJson(response.body)
    THEN Raise("GimsApiError", response.status, "token_refresh_failed")
    ELSE IF JsonLoads(response.body).type # "object"
    THEN Raise("TypeError", 0, "data[\"access\"]")
    ELSE IF "access" \notin JsonLoads(response.body).keys
    THEN Raise("GimsApiError", response.status, "token_refresh_failed")
    ELSE Pending

\* The exception _refresh_access_token raises for a response, or Pending when
\* it returns normally (lines 99-129).
RefreshFailure(response) ==
    IF response.status = 401
    THEN Raise("GimsAuthError", 401, "refresh_token_invalid")
    ELSE IF response.status # 200
    THEN Raise("GimsApiError", response.status, "token_refresh_failed")
    ELSE IF ~IsJson(response.body)
    THEN Raise("GimsApiError", response.status, "token_refresh_failed")
    ELSE IF JsonLoads(response.body).type # "object"
    THEN Raise("TypeError", 0, "data[\"access\"]")
    ELSE IF "access" \notin JsonLoads(response.body).keys
    THEN Raise("GimsApiError", response.status, "token_refresh_failed")
    ELSE Pending

\* _refresh_access_token dropping the stored access token when it fails.
RefreshedAccessTokenDropped(response, old) ==
    IF RefreshFailure(response) = Pending
    THEN JsonLoads(response.body).access
    ELSE "none"

\* self._access_token after a refresh response was processed (line 120).
RefreshedAccessToken(response, old) ==
    IF RefreshFailure(response) = Pending
    THEN JsonLoads(response.body).access
    ELSE old

\* _refresh_access_token without the rotation of lines 122-123.
RefreshedRefreshTokenKept(response, old) == old

\* self._refresh_token after a refresh response was processed (lines 122-123).
RefreshedRefreshToken(response, old) ==
    IF RefreshFailure(response) = Pending
          /\ "refresh" \in JsonLoads(response.body).keys
    THEN JsonLoads(response.body).refresh
    ELSE old

(***************************************************************************)
(* One request() call: GimsClient._request, cut at its await points.       *)
(***************************************************************************)

\* The responses a primary request may get.
RequestResponses ==
    { r \in AllResponses :
        \/ r.status \in {200, 401} /\ r.ctype = "application/json"
              /\ r.body = "{\"id\": 1}"
        \/ r.status = 204 /\ r.ctype = "" /\ r.body = ""
        \/ r.status = 200 /\ r.ctype = "text/html" /\ r.body = "oops"
        \/ r.status = 500 /\ r.ctype = "text/html"
              /\ r.body = "<html><title>Bad Gateway</title></html>" }

IdleCall ==
    [pc |-> "idle", req |-> CHOOSE r \in Requests : TRUE, sent |-> <<>>,
     refreshSent |-> <<>>, got |-> <<>>, refreshGot |-> <<>>, result |-> Pending]

\* GimsClient._get_client
_get_client ==
    IF client.state # "open" THEN NewClient(access_token) ELSE client

\* _request lines 220-223: take the connection context and send the request.
RequestStart(c, req) ==
    /\ calls[c].pc = "idle"
    /\ client' = _get_client
    /\ calls' = [calls EXCEPT ![c] =
                    [@ EXCEPT !.pc = "first", !.req = req,
                              !.sent = <<Wire(req, client')>>]]
    /\ UNCHANGED <<access_token, refresh_token, close_call,
                 outsideTransport>>

\* _request with the refresh held under a lock: a call answered 401 while
\* another call is refreshing sends no refresh request of its own.
FirstResponseExclusive(c, response) ==
    /\ calls[c].pc = "first"
    /\ IF response.status = 401
       THEN calls' = [calls EXCEPT ![c] =
                        [@ EXCEPT !.pc = IF \E d \in Calls \ {c} :
                                                calls[d].pc = "refresh"
                                         THEN "recreate" ELSE "refresh",
                                  !.got = Append(@, response),
                                  !.refreshSent =
                                      IF \E d \in Calls \ {c} :
                                            calls[d].pc = "refresh"
                                      THEN @
                                      ELSE Append(@, RefreshWire(refresh_token))]]
       ELSE calls' = [calls EXCEPT ![c] =
                        [@ EXCEPT !.pc = "done",
                                  !.got = Append(@, response),
                                  !.result = _handle_response(response)]]
    /\ UNCHANGED <<access_token, refresh_token, client, close_call,
                 outsideTransport>>

\* The first response arrives.  Not a 401: line 231.  A 401: line 227, up to
\* the refresh POST of _refresh_access_token (lines 80-91).
FirstResponse(c, response) ==
    /\ calls[c].pc = "first"
    /\ IF response.status = 401
       THEN calls' = [calls EXCEPT ![c] =
                        [@ EXCEPT !.pc = "refresh",
                                  !.got = Append(@, response),
                                  !.refreshSent =
                                      Append(@, RefreshWire(refresh_token))]]
       ELSE calls' = [calls EXCEPT ![c] =
                        [@ EXCEPT !.pc = "done",
                                  !.got = Append(@, response),
                                  !.result = _handle_response(response)]]
    /\ UNCHANGED <<access_token, refresh_token, client, close_call,
                 outsideTransport>>

\* client.request raises httpx.RequestError: it propagates out of _request.
RequestError(c) ==
    /\ calls[c].pc \in {"first", "retry"}
    /\ calls' = [calls EXCEPT ![c] =
                    [@ EXCEPT !.pc = "done",
                              !.result = Raise("RequestError", 0, "")]]
    /\ UNCHANGED <<access_token, refresh_token, client, close_call,
                 outsideTransport>>

\* The refresh endpoint answers (lines 99-129).
RefreshResponse(c, response) ==
    /\ calls[c].pc = "refresh"
    /\ access_token' = RefreshedAccessToken(response, access_token)
    /\ refresh_token' = RefreshedRefreshToken(response, refresh_token)
    /\ calls' = [calls EXCEPT ![c] =
                    [@ EXCEPT !.refreshGot = Append(@, response),
                              !.pc = IF RefreshFailure(response) = Pending
                                     THEN "recreate" ELSE "done",
                              !.result = RefreshFailure(response)]]
    /\ UNCHANGED <<client, close_call,
                 outsideTransport>>

\* The refresh POST raises httpx.RequestError (lines 92-97).
RefreshRequestError(c) ==
    /\ calls[c].pc = "refresh"
    /\ calls' = [calls EXCEPT ![c] =
                    [@ EXCEPT !.pc = "done",
                              !.result = Raise("GimsApiError", 0,
                                               "token_refresh_failed")]]
    /\ UNCHANGED <<access_token, refresh_token, client, close_call,
                 outsideTransport>>

\* GimsClient._recreate_client, lines 54-55: close the open context.
RecreateClose(c) ==
    /\ calls[c].pc = "recreate"
    /\ client.state = "open"
    /\ client' = [client EXCEPT !.state = "closed"]
    /\ calls' = [calls EXCEPT ![c] = [@ EXCEPT !.pc = "recreate_closed"]]
    /\ UNCHANGED <<access_token, refresh_token, close_call,
                 outsideTransport>>

\* GimsClient._recreate_client, lines 56-65, and the retry of line 229.
RecreateAndRetry(c) ==
    /\ \/ calls[c].pc = "recreate_closed"
       \/ calls[c].pc = "recreate" /\ client.state # "open"
    /\ client' = NewClient(access_token)
    /\ calls' = [calls EXCEPT ![c] =
                    [@ EXCEPT !.pc = "retry",
                              !.sent = Append(@, Wire(calls[c].req, client'))]]
    /\ UNCHANGED <<access_token, refresh_token, close_call,
                 outsideTransport>>

\* _request classifying the first response again instead of the retried one.
RetryResponseStale(c, response) ==
    /\ calls[c].pc = "retry"
    /\ calls' = [calls EXCEPT ![c] =
                    [@ EXCEPT !.pc = "done",
                              !.got = Append(@, response),
                              !.result = _handle_response(calls[c].got[1])]]
    /\ UNCHANGED <<access_token, refresh_token, client, close_call,
                 outsideTransport>>

\* _request refreshing again when the retried request is answered 401.
RetryResponseRefreshAgain(c, response) ==
    /\ calls[c].pc = "retry"
    /\ IF response.status = 401
       THEN calls' = [calls EXCEPT ![c] =
                        [@ EXCEPT !.pc = "refresh",
                                  !.got = Append(@, response),
                                  !.refreshSent =
                                      Append(@, RefreshWire(refresh_token))]]
       ELSE calls' = [calls EXCEPT ![c] =
                        [@ EXCEPT !.pc = "done",
                                  !.got = Append(@, response),
                                  !.result = _handle_response(response)]]
    /\ UNCHANGED <<access_token, refresh_token, client, close_call,
                 outsideTransport>>

\* The response to the retried request arrives: line 231.
RetryResponse(c, response) ==
    /\ calls[c].pc = "retry"
    /\ calls' = [calls EXCEPT ![c] =
                    [@ EXCEPT !.pc = "done",
                              !.got = Append(@, response),
                              !.result = _handle_response(response)]]
    /\ UNCHANGED <<access_token, refresh_token, client, close_call,
                 outsideTransport>>

\* close() is not running.
NoCloseCall == [pc |-> "idle"]

\* GimsClient.close, lines 69-70: an open context is closed, and close() is
\* suspended in `await self._client.aclose()`.  Nothing holds it back while
\* requests are in flight.
Close ==
    /\ close_call.pc = "idle"
    /\ client.state = "open"
    /\ client' = [client EXCEPT !.state = "closed"]
    /\ close_call' = [pc |-> "aclose"]
    /\ UNCHANGED <<access_token, refresh_token, calls, outsideTransport>>

\* GimsClient.close, line 71: aclose is over and self._client = None,
\* whichever context a request has installed in the meantime.
CloseDone ==
    /\ close_call.pc = "aclose"
    /\ client' = NoClient
    /\ close_call' = NoCloseCall
    /\ UNCHANGED <<access_token, refresh_token, calls, outsideTransport>>

TransportInit ==
    /\ access_token = ConfigAccessToken
    /\ refresh_token = ConfigRefreshToken
    /\ client = NoClient
    /\ calls = [c \in Calls |-> IdleCall]
    /\ close_call = NoCloseCall

(***************************************************************************)
(* Response classification on its own: _handle_response applied to every   *)
(* response of AllResponses.                                               *)
(***************************************************************************)

ClassifyQuiet ==
    handled = [response |-> CHOOSE r \in AllResponses : TRUE, outcome |-> Pending]

ClassifyInit ==
    handled \in [response : AllResponses, outcome : {Pending}]

HandleResponse ==
    /\ handled.outcome = Pending
    /\ handled' = [handled EXCEPT !.outcome = _handle_response(handled.response)]
    /\ UNCHANGED outsideClassify

(***************************************************************************)
(* Response governor: gims_mcp/utils.py                                    *)
(***************************************************************************)

DEFAULT_MAX_RESPONSE_SIZE == 10 * 1024

\* Largest size_kb handed to set_max_response_size.
MaxSizeKb == 2

SizeKbs == 0..MaxSizeKb

\* An optional value: <<>> is None, <<v>> is v.
None == <<>>

Some(v) == <<v>>

\* The explicit limit argument of check_response_size.
ExplicitLimits == {0, 64}

LimitArgs == {None} \cup {Some(l) : l \in ExplicitLimits}

\* The limits a check can run against.
Limits ==
    ExplicitLimits \cup {kb * 1024 : kb \in SizeKbs} \cup {DEFAULT_MAX_RESPONSE_SIZE}

\* A payload is a JSON string value: `ascii` ASCII letters, `cyrillic`
\* two-byte letters and `quotes` double quotes.  The letter counts put the
\* serialized size at and around every limit.
AsciiCounts ==
    { n \in 0..(DEFAULT_MAX_RESPONSE_SIZE + 2) :
        \E l \in Limits : n \in (l - 7)..(l + 1) }

Payloads == [ascii : AsciiCounts, cyrillic : 0..1, quotes : 0..1]

\* len(json.dumps(data, indent=2, ensure_ascii=False).encode("utf-8")): the
\* two delimiting quotes, one byte per ASCII letter, two per Cyrillic letter
\* (written raw, ensure_ascii=False) and two per escaped double quote.
JsonDumpsSize(data) == 2 + data.ascii + 2 * data.cyrillic + 2 * data.quotes

\* ResponseTooLargeError.__init__
ResponseTooLargeError(size, limit) ==
    [kind |-> "ResponseTooLargeError", size |-> size,
     limit |-> IF limit # None THEN limit[1] ELSE max_response_size]

\* check_response_size with `>=` in place of `>`.
CheckResponseSizeAtLimit(data, limit) ==
    LET effective_limit == IF limit # None THEN limit[1] ELSE max_response_size
        size == JsonDumpsSize(data)
    IN  IF size >= effective_limit
        THEN ResponseTooLargeError(size, Some(effective_limit))
        ELSE [kind |-> "return", json_str |-> data, size |-> size]

\* utils.check_response_size: the returned JSON text (named by the data it
\* serializes, with its byte length) or the raised ResponseTooLargeError.
check_response_size(data, limit) ==
    LET effective_limit == IF limit # None THEN limit[1] ELSE max_response_size
        size == JsonDumpsSize(data)
    IN  IF size > effective_limit
        THEN ResponseTooLargeError(size, Some(effective_limit))
        ELSE [kind |-> "return", json_str |-> data, size |-> size]

NotChecked == [kind |-> "none"]

GovernorInit ==
    /\ max_response_size = DEFAULT_MAX_RESPONSE_SIZE
    /\ size_kb_set = None
    /\ checked = NotChecked

\* utils.set_max_response_size
set_max_response_size(size_kb) ==
    /\ max_response_size' = size_kb * 1024
    /\ size_kb_set' = Some(size_kb)
    /\ UNCHANGED <<checked, outsideGovernor>>

\* One call of check_response_size(data, limit).
CheckResponseSize(data, limit) ==
    /\ checked' = [kind |-> "call", data |-> data, limit |-> limit,
                   last_size_kb |-> size_kb_set,
                   outcome |-> check_response_size(data, limit)]
    /\ UNCHANGED <<max_response_size, size_kb_set, outsideGovernor>>

(***************************************************************************)
(* Tools: how each tool family hands a response back                       *)
(* (gims_mcp/tools/*.py, dispatched by server.call_tool).                  *)
(***************************************************************************)

\* scripts.py: handlers that return json.dumps(...) of the remote data.
ScriptToolsDumped ==
    {"list_script_folders", "create_script_folder", "update_script_folder",
     "list_scripts", "get_script", "create_script", "update_script",
     "search_scripts"}

\* scripts.py: handlers that return a fixed text.
ScriptToolsFixed == {"delete_script_folder", "delete_script"}

\* datasource_types.py: handlers that return check_response_size(...).
DatasourceTypeToolsChecked ==
    {"list_datasource_type_folders", "create_datasource_type_folder",
     "update_datasource_type_folder", "list_datasource_types",
     "get_datasource_type", "create_datasource_type", "update_datasource_type",
     "list_datasource_type_properties", "create_datasource_type_property",
     "update_datasource_type_property", "list_datasource_type_methods",
     "get_datasource_type_method", "create_datasource_type_method",
     "update_datasource_type_method", "list_method_parameters",
     "create_method_parameter", "update_method_parameter",
     "search_datasource_types"}

DatasourceTypeToolsFixed ==
    {"delete_datasource_type_folder", "delete_datasource_type",
     "delete_datasource_type_property", "delete_datasource_type_method",
     "delete_method_parameter"}

\* activator_types.py: handlers that return check_response_size(...).
ActivatorTypeToolsChecked ==
    {"list_activator_type_folders", "create_activator_type_folder",
     "update_activator_type_folder", "list_activator_types",
     "get_activator_type", "create_activator_type", "update_activator_type",
     "list_activator_type_properties", "create_activator_type_property",
     "update_activator_type_property", "search_activator_types"}

ActivatorTypeToolsFixed ==
    {"delete_activator_type_folder", "delete_activator_type",
     "delete_activator_type_property"}

\* references.py: both handlers return json.dumps(...) of the remote data.
ReferenceToolsDumped == {"list_value_types", "list_property_sections"}

\* logs.py: the one handler joins the lines it buffered.
LogTools == {"get_script_execution_log"}

\* sync.py: handlers whose result is returned through
\* check_response_size(...).
SyncToolsChecked ==
    {"export_script", "import_script", "export_datasource_type",
     "import_datasource_type", "export_activator_type",
     "import_activator_type", "validate_python_code", "compare_with_git"}

ExportTools ==
    {"export_script", "export_datasource_type", "export_activator_type"}

ImportTools ==
    {"import_script", "import_datasource_type", "import_activator_type"}

\* The ways through a handler, decided by the arguments and by what the
\* server holds.  "result": the handler gets to its last line.  sync.py
\* has returns in front of it:
\*   "unspecified"   an export with neither id nor name (lines 175, 250, 534)
\*   "absent"        an export by a name the listing does not hold
\*                   (lines 172, 247, 531)
\*   "syntax_error"  an import of code that does not compile
\*                   (lines 203, 450, 566)
\*   "bad_date"      compare_with_git with a git_exported_at that is no ISO
\*                   date (line 653)
\*   "unknown_type"  compare_with_git with a component_type that is none of
\*                   the three (line 666)
Branches(tool) ==
    IF tool \in ExportTools THEN {"result", "unspecified", "absent"}
    ELSE IF tool \in ImportTools THEN {"result", "syntax_error"}
    ELSE IF tool = "compare_with_git"
    THEN {"result", "bad_date", "unknown_type"}
    ELSE {"result"}

\* The returns that come before the first client call.
BranchesWithoutCall ==
    {"unspecified", "syntax_error", "bad_date", "unknown_type"}

NoToolCall == [kind |-> "none"]

\* A handler ending in `response = check_response_size(result)`; the
\* ResponseTooLargeError is turned into an error text by handle_*_tool.
CheckedResponse(data) ==
    LET r == check_response_size(data, None)
    IN  IF r.kind = "return"
        THEN [text |-> "json", remote_data |-> TRUE, size |-> r.size,
              via |-> "check_response_size"]
        ELSE [text |-> "Error: Response too large", remote_data |-> FALSE,
              size |-> 0, via |-> "check_response_size"]

\* A handler ending in `json.dumps(result, indent=2, ensure_ascii=False)`.
DumpedResponse(data) ==
    [text |-> "json", remote_data |-> TRUE, size |-> JsonDumpsSize(data),
     via |-> "json.dumps"]

\* A handler ending in a fixed text such as "Script deleted successfully".
FixedResponse ==
    [text |-> "fixed", remote_data |-> FALSE, size |-> 0, via |-> "fixed"]

\* The handler caught GimsApiError: "Error: {e.message}\nDetail: {e.detail}".
ApiErrorResponse ==
    [text |-> "Error: GimsApiError", remote_data |-> FALSE, size |-> 0,
     via |-> "except"]

\* The text of a return in front of the last line of a sync handler,
\* `return [TextContent(type="text", text=f"Error: ...")]`: it goes out as
\* it is, without check_response_size.  The texts of the source are
\* Russian ("Error: Укажите script_id или script_name", "... не найден",
\* "Error: Ошибка синтаксиса Python: ...", "Error: Неверный формат даты:
\* ...", "Error: Неизвестный тип компонента: ..."); they are named here by
\* what they say.
DirectText(branch) ==
    IF branch = "unspecified" THEN "Error: specify id or name"
    ELSE IF branch = "absent" THEN "Error: not found"
    ELSE IF branch = "syntax_error" THEN "Error: Python syntax error"
    ELSE IF branch = "bad_date" THEN "Error: wrong date format"
    ELSE "Error: unknown component type"

DirectResponse(branch) ==
    [text |-> DirectText(branch), remote_data |-> FALSE, size |-> 0,
     via |-> "direct"]

\* config.Config as config.py declares it (lines 22-31) and as from_env and
\* from_args build it: url, access_token, refresh_token, timeout,
\* verify_ssl and max_response_size_kb.  It has no log_stream_timeout.
Config == [log_stream_timeout |-> None]

\* A config object that was given a log_stream_timeout of one second by
\* whoever constructed the client.
ConfigWithLogStreamTimeout == [log_stream_timeout |-> Some(1)]

\* The config objects a client is constructed with.
Configs == {Config, ConfigWithLogStreamTimeout}

\* len(parsed_line.encode("utf-8")) + 1 of the payload's text.
LogLineSize(data) == data.ascii + 2 * data.cyrillic + data.quotes + 1

\* The scripts the log tool is asked about.
ScrIds == {1, 999}

\* What can go wrong on the way to the log lines: nothing; the request for
\* the log URL answered 404; that request answered with another error
\* status; the connection to the stream answered with an error status
\* other than 401.
LogFailures == {"none", "url_404", "url_error", "stream_error"}

\* _get_script_execution_log, called without a timeout argument, on every
\* way that ends inside it.  A 404 of get_script_log_url is answered with
\* its own text (lines 157-159).  A stream whose connection is answered
\* with an error status raises GimsApiError(status, "Failed to connect to
\* log stream") (client.py lines 657-662); the timeout of the config leaves
\* no time for a retry, so the loop ends with that connection error, which
\* is returned as a warning (lines 278-286, 303-309).  Otherwise the stream
\* answers every connection with one event whose content is the payload's
\* text (no end marker, no filter) and ends.  An empty content
\* is skipped (lines 209-210): nothing is buffered, the tool reconnects
\* until the timeout of the config has run out and returns the timeout
\* warning alone.  A line is buffered when its UTF-8 length + 1 fits
\* max_size (lines 237-243) and the buffer is returned when the stream ends
\* (lines 266-268); a line over the limit leaves only the size warning.  The
\* warnings are followed by an empty line and the buffered lines, here none
\* (lines 307-309).
LogResponse(scr_id, data, failure, config) ==
    IF failure = "url_404"
    THEN [text |-> "Error 404: Script with ID " \o ToString(scr_id)
                       \o " not found",
          remote_data |-> FALSE, size |-> 0, via |-> "direct"]
    ELSE IF failure = "stream_error"
    THEN [text |-> "WARNING: SSE connection error: "
                       \o "Failed to connect to log stream\n\n",
          remote_data |-> FALSE, size |-> 0, via |-> "log_buffer"]
    ELSE IF data.ascii + data.cyrillic + data.quotes = 0
    THEN [text |-> "WARNING: Timeout ("
                       \o ToString(config.log_stream_timeout[1])
                       \o "s) reached without end marker\n\n",
          remote_data |-> FALSE, size |-> 0, via |-> "log_buffer"]
    ELSE IF LogLineSize(data) > max_response_size
    THEN [text |-> "WARNING: Size limit (" \o ToString(max_response_size \div 1024)
                       \o "KB) reached\n\n",
          remote_data |-> FALSE,
          size |-> 0, via |-> "log_buffer"]
    ELSE [text |-> "log", remote_data |-> TRUE, size |-> LogLineSize(data) - 1,
          via |-> "log_buffer"]

\* The response of a tool on one way through its handler, whose client
\* calls returned data (or failed); the log tool builds its own in
\* handle_log_tool.  A return in front of the first client call does not
\* depend on the server; validate_python_code makes no client call.
ToolResponse(tool, branch, data, failed) ==
    IF branch \in BranchesWithoutCall
    THEN DirectResponse(branch)
    ELSE IF failed /\ tool # "validate_python_code"
    THEN ApiErrorResponse
    ELSE IF branch = "absent"
    THEN DirectResponse(branch)
    ELSE IF tool \in DatasourceTypeToolsChecked \cup ActivatorTypeToolsChecked
                        \cup SyncToolsChecked
    THEN CheckedResponse(data)
    ELSE IF tool \in ScriptToolsDumped \cup ReferenceToolsDumped
    THEN DumpedResponse(data)
    ELSE FixedResponse

ToolInit == tool_call = NoToolCall

\* The model follows one invocation per behaviour.
Invoke(family, tool, branch, data, failed) ==
    /\ tool_call = NoToolCall
    /\ branch \in Branches(tool)
    /\ tool_call' = [kind |-> "call", family |-> family, tool |-> tool,
                     branch |-> branch, data |-> data, failed |-> failed,
                     limit |-> max_response_size,
                     response |-> ToolResponse(tool, branch, data, failed)]
    /\ UNCHANGED <<max_response_size, outsideTools>>

\* scripts.handle_script_tool
handle_script_tool(tool, data, failed) ==
    /\ tool \in ScriptToolsDumped \cup ScriptToolsFixed
    /\ Invoke("scripts", tool, "result", data, failed)

\* datasource_types.handle_datasource_type_tool
handle_datasource_type_tool(tool, data, failed) ==
    /\ tool \in DatasourceTypeToolsChecked \cup DatasourceTypeToolsFixed
    /\ Invoke("datasource_types", tool, "result", data, failed)

\* activator_types.handle_activator_type_tool
handle_activator_type_tool(tool, data, failed) ==
    /\ tool \in ActivatorTypeToolsChecked \cup ActivatorTypeToolsFixed
    /\ Invoke("activator_types", tool, "result", data, failed)

\* references.handle_reference_tool
handle_reference_tool(tool, data, failed) ==
    /\ tool \in ReferenceToolsDumped
    /\ Invoke("references", tool, "result", data, failed)

\* What `except Exception` of handle_log_tool (lines 72-73) makes of the
\* AttributeError of line 146.
AttributeErrorResponse ==
    [text |-> "Error: AttributeError: 'Config' object has no attribute 'log_stream_timeout'",
     remote_data |-> FALSE, size |-> 0, via |-> "except"]

\* logs.handle_log_tool on a client constructed with config: line 146 of
\* _get_script_execution_log reads config.log_stream_timeout before any
\* client call, whether or not the arguments hold a timeout.  A
\* GimsApiError of get_script_log_url that is no 404 is raised again (line
\* 160) and caught by the handler (lines 70-71); every other way ends
\* inside _get_script_execution_log.
handle_log_tool(tool, scr_id, data, failure, config) ==
    /\ tool \in LogTools
    /\ tool_call = NoToolCall
    /\ tool_call' = [kind |-> "call", family |-> "logs", tool |-> tool,
                     branch |-> "result", data |-> data,
                     failed |-> failure # "none",
                     limit |-> max_response_size,
                     response |-> IF config.log_stream_timeout = None
                                  THEN AttributeErrorResponse
                                  ELSE IF failure = "url_error"
                                  THEN ApiErrorResponse
                                  ELSE LogResponse(scr_id, data, failure,
                                                   config)]
    /\ UNCHANGED <<max_response_size, outsideTools>>

\* sync.handle_sync_tool
handle_sync_tool(tool, branch, data, failed) ==
    /\ tool \in SyncToolsChecked
    /\ Invoke("sync", tool, branch, data, failed)

\* run_server: set_max_response_size(config.max_response_size_kb) at startup.
ConfigureLimit(size_kb) ==
    /\ size_kb_set = None
    /\ tool_call = NoToolCall
    /\ max_response_size' = size_kb * 1024
    /\ size_kb_set' = Some(size_kb)
    /\ UNCHANGED <<checked, tool_call, transportVars, classifyVars, importVars,
                   serializerVars,
                   errorVars,
                   utilVars,
                   streamVars,
                   logVars>>

AllTools ==
    ScriptToolsDumped \cup ScriptToolsFixed \cup DatasourceTypeToolsChecked
        \cup DatasourceTypeToolsFixed \cup ActivatorTypeToolsChecked
        \cup ActivatorTypeToolsFixed \cup ReferenceToolsDumped \cup LogTools
        \cup SyncToolsChecked

\* The remote data of the tool runs: payloads around the configured limits.
ToolPayloads ==
    {d \in Payloads : d.cyrillic = 0 /\ d.quotes = 0 /\
        \E l \in Limits : JsonDumpsSize(d) \in (l - 1)..(l + 2)}

(***************************************************************************)
(* Import reconciler: gims_mcp/tools/sync.py, gims_mcp/validators.py       *)
(***************************************************************************)

ImportKinds == {"script", "datasource_type", "activator_type"}

ValidCode == "print(1)"

BrokenCode == "def broken(\n    pass"

NoCode == "# No code"

\* validators.validate_python_syntax: ast.parse accepts the code or raises
\* SyntaxError.
validate_python_syntax(code) == code # BrokenCode

\* A text of n filler characters.
RECURSIVE Filler(_)
Filler(n) ==
    IF n = 0 THEN ""
    ELSE IF n % 2 = 0 THEN LET half == Filler(n \div 2) IN half \o half
    ELSE "x" \o Filler(n - 1)

\* A property of properties.yaml, by the names that decide its import.
Prop(name, value_type, section) ==
    [name |-> name, value_type |-> value_type, section |-> section]

\* A parameter of a method's params.yaml.
Param(label, value_type) == [label |-> label, value_type |-> value_type]

\* The files of one methods/<label>/ folder: whether meta.yaml is there, the
\* text of code.py if it is there, and the parameters of params.yaml.
Folder(has_meta, code, parameters) ==
    [has_meta |-> has_meta, code |-> code, parameters |-> parameters]

\* The smaller of the two limits an import runs under, in KB.
SmallSizeKb == 1

\* f"Property '{name}': ..." of lines 319, 326 and 357.
PropertyError(name, why) == "Property '" \o name \o "': " \o why

\* f"Method '{label}': {e.message}" of line 426.
MethodError(label, why) == "Method '" \o label \o "': " \o why

\* f"Method '{label}' param '{param_label}': ..." of lines 407 and 423.
ParameterError(label, param_label, why) ==
    "Method '" \o label \o "' param '" \o param_label \o "': " \o why

UnknownValueType(value_type_name) ==
    "unknown value_type '" \o value_type_name \o "'"

UnknownSection(section_name) == "unknown section '" \o section_name \o "'"

\* e.message of the GimsApiError a failed request of the model stands for:
\* that of an answer with a status from 400 on other than 401, 403 and 404
\* (client.py line 149).
ApiErrorMessage == "API error"

\* A document set none of whose value types the server knows, with so many
\* properties that their error lines alone pass the small limit.
ManyProperties ==
    LET line == PropertyError("host", UnknownValueType("ghost"))
    IN  [i \in 1..((SmallSizeKb * 1024) \div Len(line) + 1) |->
            Prop("host", "ghost", "Main")]

PropertyLists ==
    { <<>>,
      <<Prop("host", "str", "Main")>>,
      <<Prop("port", "ghost", "Main"), Prop("host", "str", "Main")>>,
      <<Prop("mode", "str", "Nowhere")>>,
      ManyProperties }

MethodFolders ==
    { Folder(TRUE, Some(ValidCode), <<>>),
      Folder(TRUE, Some(BrokenCode), <<>>),
      Folder(FALSE, Some(BrokenCode), <<>>),
      Folder(TRUE, None, <<Param("timeout", "int")>>),
      Folder(TRUE, Some(ValidCode), <<Param("x", "ghost"), Param("y", "int")>>) }

MethodLabels == {"fetch", "push"}

\* The method folders of a document set, by label.
MethodTrees ==
    UNION { [labels -> MethodFolders] : labels \in SUBSET MethodLabels }

NoMethods == [label \in {} |-> Folder(FALSE, None, <<>>)]

\* The arguments of an import tool.  A script import carries meta_yaml and
\* code; a type import carries the files of the document set.
ScriptImportArgs ==
    [kind : {"script"}, target_name : {None, Some(""), Some("Beta")},
     update_existing : BOOLEAN, meta_name : {None, Some("Alpha")},
     code : {Some(ValidCode), Some(BrokenCode)},
     properties : {<<>>}, methods : {NoMethods}]

ActivatorTypeImportArgs ==
    [kind : {"activator_type"}, target_name : {None, Some(""), Some("Beta")},
     update_existing : BOOLEAN, meta_name : {None, Some("Alpha")},
     code : {None, Some(ValidCode), Some(BrokenCode)},
     properties : PropertyLists, methods : {NoMethods}]

DatasourceTypeImportArgs ==
    [kind : {"datasource_type"}, target_name : {None, Some(""), Some("Beta")},
     update_existing : BOOLEAN, meta_name : {None, Some("Alpha")},
     code : {None, Some(BrokenCode)},
     properties : PropertyLists, methods : MethodTrees]

ImportArgs ==
    ScriptImportArgs \cup ActivatorTypeImportArgs \cup DatasourceTypeImportArgs

\* A remote entity as the listing returns it.
Entity(id, name) == [id |-> id, name |-> name, revision |-> 0]

RemoteListings ==
    { <<>>,
      <<Entity(1, "Alpha")>>,
      <<Entity(1, "Beta"), Entity(2, "Alpha"), Entity(3, "Alpha")>> }

\* client.list_value_types / client.list_property_sections, as name -> id.
ValueTypeIds == [n \in {"str", "int"} |-> IF n = "str" THEN 1 ELSE 2]

SectionIds == [n \in {"Main"} |-> 1]

\* dict.get(key): the id, or None.
Lookup(map, key) == IF key \in DOMAIN map THEN Some(map[key]) ELSE None

\* `target_name or meta.get("name", "Unnamed Script")` for a script;
\* `target_name or data.get("name", "Unnamed Type")` for a type, where the
\* deserializer has already put meta.get("name", "") into data.  `or` takes
\* its right side for an absent target_name and for an empty one alike.
TargetName(args) ==
    IF args.target_name # None /\ args.target_name[1] # ""
    THEN args.target_name[1]
    ELSE IF args.meta_name # None THEN args.meta_name[1]
    ELSE IF args.kind = "script" THEN "Unnamed Script"
    ELSE ""

\* The method of one folder as deserialize_datasource_type builds it.
DeserializedMethod(label, folder) ==
    [name |-> label, label |-> label,
     code |-> IF folder.code # None THEN folder.code[1] ELSE NoCode,
     parameters |-> folder.parameters]

\* The orders in which a set of labels can be iterated.
RECURSIVE Orders(_)
Orders(labels) ==
    IF labels = {} THEN {<<>>}
    ELSE UNION { { <<l>> \o rest : rest \in Orders(labels \ {l}) } : l \in labels }

\* deserialize_datasource_type: the methods are the folders holding a
\* meta.yaml, in the iteration order of a set of labels.
DeserializedMethods(args, order) ==
    [i \in 1..Len(order) |-> DeserializedMethod(order[i], args.methods[order[i]])]

MethodOrders(args) ==
    Orders({l \in DOMAIN args.methods : args.methods[l].has_meta})

\* The top-level code the import validates and writes: the `code` argument
\* of import_script, files.get("code.py", "# No code") of an activator type,
\* none for a datasource type.
TopLevelCode(args) ==
    IF args.kind = "datasource_type" THEN None
    ELSE IF args.code # None THEN args.code
    ELSE Some(NoCode)

\* next((t for t in listing if t["name"] == name), None)
FirstNamed(listing, name) ==
    LET hits == {i \in 1..Len(listing) : listing[i].name = name}
    IN  IF hits = {} THEN None
        ELSE Some(listing[CHOOSE i \in hits : \A j \in hits : i <= j])

\* One client call: the method, its HTTP verb, its target, whether it
\* returned (ok), and whether what it raised was something other than
\* GimsApiError (raised); a call that is neither raised GimsApiError.
Request(op, verb, target, ok) ==
    [op |-> op, verb |-> verb, target |-> target, ok |-> ok, raised |-> FALSE]

NoResult == [kind |-> "none"]

\* "Error: ..." for a syntax error, naming the method label if it has one.
SyntaxErrorResult(label) == [kind |-> "error", error |-> "syntax", label |-> label]

\* "Error: {e.message}\nDetail: {e.detail}" out of handle_sync_tool.
ApiErrorResult == [kind |-> "error", error |-> "GimsApiError", label |-> None]

\* "Error: {format_error(e)}" out of handle_sync_tool, for an exception that
\* is neither ResponseTooLargeError nor GimsApiError.
ExceptionResult == [kind |-> "error", error |-> "Exception", label |-> None]

\* "Error: Response too large (...)" out of handle_sync_tool, with the size
\* and the limit of the ResponseTooLargeError.
TooLargeResult(size, limit) ==
    [kind |-> "error", error |-> "ResponseTooLargeError", label |-> None,
     size |-> size, limit |-> limit]

\* {"error": ..., "existing_id": ..., "suggestion": ...}
ConflictResult(existing) == [kind |-> "conflict", existing_id |-> existing.id]

ChildCounts == [created |-> 0, skipped |-> 0, parameters_created |-> 0, errors |-> <<>>]

\* The UTF-8 bytes of a word of n Cyrillic letters, two bytes a letter.
Cyrillic(n) == Filler(2 * n)

\* n spaces of indentation.
RECURSIVE Indent(_)
Indent(n) == IF n = 0 THEN "" ELSE " " \o Indent(n - 1)

\* json.dumps of a text without quotes, backslashes and control characters.
JsonString(text) == "\"" \o text \o "\""

\* The items of a JSON list, one a line at the given depth, from item i on.
RECURSIVE JsonItems(_, _, _)
JsonItems(items, i, depth) ==
    IF i > Len(items) THEN ""
    ELSE Indent(depth) \o JsonString(items[i])
             \o (IF i < Len(items) THEN ",\n" ELSE "\n")
             \o JsonItems(items, i + 1, depth)

\* json.dumps(errors, indent=2) of a list of texts whose brackets stand at
\* the given depth.
JsonList(items, depth) ==
    IF items = <<>> THEN "[]"
    ELSE "[\n" \o JsonItems(items, 1, depth + 2) \o Indent(depth) \o "]"

\* json.dumps(result, indent=2, ensure_ascii=False) of the report of an
\* import (lines 227, 505-511, 614-619); the bytes of the text are its
\* characters, the names of the model being ASCII.
ReportJson(call) ==
    LET kind == call.args[1].kind
        properties ==
            "{\n    \"created\": " \o ToString(call.properties_result.created)
                \o ",\n    \"skipped\": "
                \o ToString(call.properties_result.skipped)
                \o ",\n    \"errors\": "
                \o JsonList(call.properties_result.errors, 4) \o "\n  }"
        methods ==
            "{\n    \"created\": " \o ToString(call.methods_result.created)
                \o ",\n    \"parameters_created\": "
                \o ToString(call.methods_result.parameters_created)
                \o ",\n    \"errors\": "
                \o JsonList(call.methods_result.errors, 4) \o "\n  }"
    IN  "{\n  \"action\": " \o JsonString(call.action)
            \o (IF kind = "script" THEN ",\n  \"script_id\": "
                ELSE ",\n  \"type_id\": ")
            \o ToString(call.type_id)
            \o ",\n  \"name\": " \o JsonString(call.name)
            \o (IF kind = "script" THEN ""
                ELSE ",\n  \"properties\": " \o properties)
            \o (IF kind = "datasource_type"
                THEN ",\n  \"methods\": " \o methods ELSE "")
            \o "\n}"

\* The same of the conflict report (lines 214-218, 458-462, 573-577), byte
\* for byte: its Russian words are written as their UTF-8 bytes.
ConflictJson(kind, name, existing_id) ==
    LET entity == IF kind = "script" THEN Cyrillic(6)
                  ELSE IF kind = "datasource_type"
                  THEN Cyrillic(3) \o " " \o Cyrillic(2)
                  ELSE Cyrillic(3) \o " " \o Cyrillic(10)
        error == entity \o " '" \o name \o "' " \o Cyrillic(3) \o " "
                     \o Cyrillic(10)
        suggestion ==
            Cyrillic(11) \o " target_name " \o Cyrillic(3) \o " "
                \o Cyrillic(8) \o " " \o Cyrillic(1) \o " " \o Cyrillic(6)
                \o " " \o Cyrillic(6) \o " " \o Cyrillic(3)
                \o " update_existing=true"
    IN  "{\n  \"error\": " \o JsonString(error)
            \o ",\n  \"existing_id\": " \o ToString(existing_id)
            \o ",\n  \"suggestion\": " \o JsonString(suggestion) \o "\n}"

\* response = check_response_size(result) at the end of an import tool: the
\* result when its JSON text is no longer than the process-wide limit,
\* otherwise the ResponseTooLargeError that handle_sync_tool (lines
\* 149-150) turns into an error text.
ImportResponse(json_str, result) ==
    IF Len(json_str) > max_response_size
    THEN TooLargeResult(Len(json_str), max_response_size)
    ELSE result

IdleImport ==
    [pc |-> "idle", args |-> None, name |-> "", methods |-> <<>>,
     listed |-> None, existing |-> None, type_id |-> 0, action |-> "",
     i |-> 1, k |-> 1, method_id |-> 0,
     properties_result |-> ChildCounts, methods_result |-> ChildCounts,
     result |-> NoResult]

\* The end of an import that got through: {"action": ..., "script_id" /
\* "type_id": ..., "name": ..., and for a type the "properties" and
\* "methods" reports} goes through check_response_size (lines 229, 513,
\* 621), which returns it or raises ResponseTooLargeError.
Finished(call) ==
    [call EXCEPT !.pc = "done",
        !.result = ImportResponse(ReportJson(call),
                       [kind |-> "action", action |-> call.action,
                        id |-> call.type_id, name |-> call.name,
                        properties |-> call.properties_result,
                        methods |-> call.methods_result])]

Failed(call, result) == [call EXCEPT !.pc = "done", !.result = result]

\* Where _import_methods stands after method i is done with.
AfterMethod(call) ==
    IF call.i < Len(call.methods)
    THEN [call EXCEPT !.pc = "methods", !.i = call.i + 1, !.k = 1]
    ELSE Finished(call)

\* Where the import stands after _import_properties.
AfterProperties(call) ==
    IF call.args[1].kind = "datasource_type" /\ call.methods # <<>>
    THEN [call EXCEPT !.pc = "methods", !.i = 1, !.k = 1]
    ELSE Finished(call)

ImportQuiet ==
    /\ import_call = IdleImport
    /\ remote = <<>>
    /\ requests = <<>>

ImportInit ==
    /\ import_call = IdleImport
    /\ remote \in RemoteListings
    /\ requests = <<>>

\* run_server has set the limit of the process before any tool runs
\* (server.py line 101): the default of the config, or a small one.
ImportLimitInit ==
    /\ \/ max_response_size = DEFAULT_MAX_RESPONSE_SIZE /\ size_kb_set = None
       \/ /\ max_response_size = SmallSizeKb * 1024
          /\ size_kb_set = Some(SmallSizeKb)
    /\ checked = NotChecked

ListOp(kind) ==
    IF kind = "script" THEN "list_scripts"
    ELSE IF kind = "datasource_type" THEN "list_datasource_types"
    ELSE "list_activator_types"

CreateOp(kind) ==
    IF kind = "script" THEN "create_script"
    ELSE IF kind = "datasource_type" THEN "create_datasource_type"
    ELSE "create_activator_type"

UpdateOp(kind) ==
    IF kind = "script" THEN "update_script"
    ELSE IF kind = "datasource_type" THEN "update_datasource_type"
    ELSE "update_activator_type"

\* The first method, in deserialized order, whose code does not parse.
FirstInvalidMethod(methods) ==
    LET bad == {i \in 1..Len(methods) : ~validate_python_syntax(methods[i].code)}
    IN  IF bad = {} THEN None
        ELSE Some(methods[CHOOSE i \in bad : \A j \in bad : i <= j])

\* The validation of an import that skips the code of the methods.
ValidationOfTopLevelOnly(args, methods) ==
    LET code == TopLevelCode(args)
    IN  IF code # None /\ ~validate_python_syntax(code[1])
        THEN SyntaxErrorResult(None)
        ELSE NoResult

\* The validation every import starts with: the top-level code of a script
\* or an activator type, the code of every deserialized method of a
\* datasource type.  NoResult when every body parses.
Validation(args, methods) ==
    LET code == TopLevelCode(args)
        bad == FirstInvalidMethod(methods)
    IN  IF code # None /\ ~validate_python_syntax(code[1])
        THEN SyntaxErrorResult(None)
        ELSE IF args.kind = "datasource_type" /\ bad # None
        THEN SyntaxErrorResult(Some(bad[1].label))
        ELSE NoResult

\* _import_script / _import_datasource_type / _import_activator_type up to
\* the listing: deserialization and validation of the code.
ImportStart(args, order) ==
    /\ import_call.pc = "idle"
    /\ order \in MethodOrders(args)
    /\ LET methods == DeserializedMethods(args, order)
           started == [import_call EXCEPT !.args = Some(args),
                          !.name = TargetName(args), !.methods = methods]
           verdict == Validation(args, methods)
       IN  import_call' = IF verdict # NoResult
                          THEN Failed(started, verdict)
                          ELSE [started EXCEPT !.pc = "list"]
    /\ UNCHANGED <<remote, requests, outsideImport>>

\* The listing that treats a found name as absent.
ListEntitiesBlind(ok) ==
    /\ import_call.pc = "list"
    /\ requests' = Append(requests,
                          Request(ListOp(import_call.args[1].kind), "GET", 0, ok))
    /\ import_call' = IF ~ok THEN Failed(import_call, ApiErrorResult)
                      ELSE [import_call EXCEPT !.pc = "base",
                               !.listed = Some(remote), !.existing = None]
    /\ UNCHANGED <<remote, outsideImport>>

\* client.list_* and the existence check by name: a conflict ends the
\* import with its report, which goes through check_response_size too.
ListEntities(ok) ==
    /\ import_call.pc = "list"
    /\ requests' = Append(requests,
                          Request(ListOp(import_call.args[1].kind), "GET", 0, ok))
    /\ LET existing == FirstNamed(remote, import_call.name)
           listed == [import_call EXCEPT !.listed = Some(remote),
                         !.existing = existing]
       IN  import_call' =
               IF ~ok THEN Failed(import_call, ApiErrorResult)
               ELSE IF existing # None /\ ~import_call.args[1].update_existing
               THEN Failed(listed,
                        ImportResponse(
                            ConflictJson(import_call.args[1].kind,
                                         import_call.name, existing[1].id),
                            ConflictResult(existing[1])))
               ELSE [listed EXCEPT !.pc = "base"]
    /\ UNCHANGED <<remote, outsideImport>>

\* The state an import is in once its base create/update has returned.
AfterBase(call) ==
    IF call.args[1].kind = "script" THEN Finished(call)
    ELSE [call EXCEPT !.pc = "value_types"]

\* The base write that always creates.
BaseWriteAlwaysCreate(ok) ==
    /\ import_call.pc = "base"
    /\ LET kind == import_call.args[1].kind
           id == Len(remote) + 1
       IN  /\ requests' = Append(requests, Request(CreateOp(kind), "POST", 0, ok))
           /\ remote' = IF ok THEN Append(remote, Entity(id, import_call.name))
                        ELSE remote
           /\ import_call' =
                  IF ~ok THEN Failed(import_call, ApiErrorResult)
                  ELSE AfterBase([import_call EXCEPT !.type_id = id,
                                     !.action = "created"])
    /\ UNCHANGED outsideImport

\* client.update_*(existing["id"], ...) if the name was found (and
\* update_existing is set), client.create_*(name=name, ...) otherwise.
BaseWrite(ok) ==
    /\ import_call.pc = "base"
    /\ LET kind == import_call.args[1].kind
           existing == import_call.existing
           id == IF existing # None THEN existing[1].id ELSE Len(remote) + 1
       IN  /\ requests' = Append(requests,
                  IF existing # None
                  THEN Request(UpdateOp(kind), "PATCH", id, ok)
                  ELSE Request(CreateOp(kind), "POST", 0, ok))
           /\ remote' =
                  IF ~ok THEN remote
                  ELSE IF existing # None
                  THEN [n \in 1..Len(remote) |->
                           IF remote[n].id = id
                           THEN [remote[n] EXCEPT !.revision = @ + 1]
                           ELSE remote[n]]
                  ELSE Append(remote, Entity(id, import_call.name))
           /\ import_call' =
                  IF ~ok THEN Failed(import_call, ApiErrorResult)
                  ELSE AfterBase([import_call EXCEPT !.type_id = id,
                          !.action = IF existing # None THEN "updated"
                                     ELSE "created"])
    /\ UNCHANGED outsideImport

\* _resolve_reference_ids: client.list_value_types()
ListValueTypes(ok) ==
    /\ import_call.pc = "value_types"
    /\ requests' = Append(requests, Request("list_value_types", "GET", 0, ok))
    /\ import_call' = IF ~ok THEN Failed(import_call, ApiErrorResult)
                      ELSE [import_call EXCEPT !.pc = "sections"]
    /\ UNCHANGED <<remote, outsideImport>>

\* _resolve_reference_ids: client.list_property_sections()
ListPropertySections(ok) ==
    /\ import_call.pc = "sections"
    /\ requests' = Append(requests, Request("list_property_sections", "GET", 0, ok))
    /\ import_call' =
           IF ~ok THEN Failed(import_call, ApiErrorResult)
           ELSE IF import_call.args[1].properties # <<>>
           THEN [import_call EXCEPT !.pc = "properties", !.i = 1]
           ELSE AfterProperties(import_call)
    /\ UNCHANGED <<remote, outsideImport>>

\* _import_properties counting a failed create request as created.
ImportPropertyCountingFailures(ok) ==
    /\ import_call.pc = "properties"
    /\ LET args == import_call.args[1]
           prop == args.properties[import_call.i]
           value_type_id == Lookup(ValueTypeIds, prop.value_type)
           section_id == Lookup(SectionIds, prop.section)
           resolved == value_type_id # None /\ section_id # None
           op == IF args.kind = "datasource_type"
                 THEN "create_datasource_type_property"
                 ELSE "create_activator_type_property"
           why == IF value_type_id = None
                  THEN UnknownValueType(prop.value_type)
                  ELSE UnknownSection(prop.section)
           counted ==
               IF resolved
               THEN [import_call EXCEPT !.properties_result.created = @ + 1]
               ELSE [import_call EXCEPT !.properties_result.skipped = @ + 1,
                        !.properties_result.errors =
                            Append(@, PropertyError(prop.name, why))]
       IN  /\ resolved \/ ok
           /\ requests' = IF resolved
                          THEN Append(requests,
                                   Request(op, "POST", import_call.type_id, ok))
                          ELSE requests
           /\ import_call' = IF import_call.i < Len(args.properties)
                             THEN [counted EXCEPT !.i = @ + 1]
                             ELSE AfterProperties(counted)
    /\ UNCHANGED <<remote, outsideImport>>

\* _import_properties with a failed property ending the import.
ImportPropertyAborting(ok) ==
    /\ import_call.pc = "properties"
    /\ LET args == import_call.args[1]
           prop == args.properties[import_call.i]
           value_type_id == Lookup(ValueTypeIds, prop.value_type)
           section_id == Lookup(SectionIds, prop.section)
           resolved == value_type_id # None /\ section_id # None
           op == IF args.kind = "datasource_type"
                 THEN "create_datasource_type_property"
                 ELSE "create_activator_type_property"
           why == IF value_type_id = None
                  THEN UnknownValueType(prop.value_type)
                  ELSE IF section_id = None
                  THEN UnknownSection(prop.section)
                  ELSE ApiErrorMessage
           counted ==
               IF resolved /\ ok
               THEN [import_call EXCEPT !.properties_result.created = @ + 1]
               ELSE [import_call EXCEPT !.properties_result.skipped = @ + 1,
                        !.properties_result.errors =
                            Append(@, PropertyError(prop.name, why))]
       IN  /\ resolved \/ ok
           /\ requests' = IF resolved
                          THEN Append(requests,
                                   Request(op, "POST", import_call.type_id, ok))
                          ELSE requests
           /\ import_call' = IF ~(resolved /\ ok)
                             THEN Failed(import_call, ApiErrorResult)
                             ELSE IF import_call.i < Len(args.properties)
                             THEN [counted EXCEPT !.i = @ + 1]
                             ELSE AfterProperties(counted)
    /\ UNCHANGED <<remote, outsideImport>>

\* One iteration of the loop of _import_properties.
ImportProperty(ok) ==
    /\ import_call.pc = "properties"
    /\ LET args == import_call.args[1]
           prop == args.properties[import_call.i]
           value_type_id == Lookup(ValueTypeIds, prop.value_type)
           section_id == Lookup(SectionIds, prop.section)
           resolved == value_type_id # None /\ section_id # None
           op == IF args.kind = "datasource_type"
                 THEN "create_datasource_type_property"
                 ELSE "create_activator_type_property"
           why == IF value_type_id = None
                  THEN UnknownValueType(prop.value_type)
                  ELSE IF section_id = None
                  THEN UnknownSection(prop.section)
                  ELSE ApiErrorMessage
           counted ==
               IF resolved /\ ok
               THEN [import_call EXCEPT !.properties_result.created = @ + 1]
               ELSE [import_call EXCEPT !.properties_result.skipped = @ + 1,
                        !.properties_result.errors =
                            Append(@, PropertyError(prop.name, why))]
       IN  /\ resolved \/ ok
           /\ requests' = IF resolved
                          THEN Append(requests,
                                   Request(op, "POST", import_call.type_id, ok))
                          ELSE requests
           /\ import_call' = IF import_call.i < Len(args.properties)
                             THEN [counted EXCEPT !.i = @ + 1]
                             ELSE AfterProperties(counted)
    /\ UNCHANGED <<remote, outsideImport>>

\* _import_methods going on to the parameters of a method whose create
\* request failed.
ImportMethodParametersAnyway(ok) ==
    /\ import_call.pc = "methods"
    /\ LET method == import_call.methods[import_call.i]
           created == [import_call EXCEPT !.methods_result.created = @ + 1,
                          !.method_id = import_call.methods_result.created + 1]
           failed == [import_call EXCEPT !.methods_result.errors =
                         Append(@, MethodError(method.label, ApiErrorMessage))]
           counted == IF ok THEN created ELSE failed
       IN  /\ requests' = Append(requests,
                  Request("create_datasource_type_method", "POST",
                          import_call.type_id, ok))
           /\ import_call' =
                  IF method.parameters # <<>>
                  THEN [counted EXCEPT !.pc = "parameters", !.k = 1]
                  ELSE AfterMethod(counted)
    /\ UNCHANGED <<remote, outsideImport>>

\* One iteration of the outer loop of _import_methods, up to the first
\* parameter: client.create_datasource_type_method(...).
ImportMethod(ok) ==
    /\ import_call.pc = "methods"
    /\ LET method == import_call.methods[import_call.i]
           created == [import_call EXCEPT !.methods_result.created = @ + 1,
                          !.method_id = import_call.methods_result.created + 1]
           failed == [import_call EXCEPT !.methods_result.errors =
                         Append(@, MethodError(method.label, ApiErrorMessage))]
       IN  /\ requests' = Append(requests,
                  Request("create_datasource_type_method", "POST",
                          import_call.type_id, ok))
           /\ import_call' =
                  IF ~ok THEN AfterMethod(failed)
                  ELSE IF method.parameters # <<>>
                  THEN [created EXCEPT !.pc = "parameters", !.k = 1]
                  ELSE AfterMethod(created)
    /\ UNCHANGED <<remote, outsideImport>>

\* One iteration of the inner loop of _import_methods.
ImportParameter(ok) ==
    /\ import_call.pc = "parameters"
    /\ LET method == import_call.methods[import_call.i]
           param == method.parameters[import_call.k]
           value_type_id == Lookup(ValueTypeIds, param.value_type)
           resolved == value_type_id # None
           why == IF resolved THEN ApiErrorMessage
                  ELSE UnknownValueType(param.value_type)
           counted ==
               IF resolved /\ ok
               THEN [import_call EXCEPT !.methods_result.parameters_created = @ + 1]
               ELSE [import_call EXCEPT !.methods_result.errors =
                        Append(@, ParameterError(method.label, param.label,
                                                 why))]
       IN  /\ resolved \/ ok
           /\ requests' = IF resolved
                          THEN Append(requests,
                                   Request("create_method_parameter", "POST",
                                           import_call.method_id, ok))
                          ELSE requests
           /\ import_call' = IF import_call.k < Len(method.parameters)
                             THEN [counted EXCEPT !.k = @ + 1]
                             ELSE AfterMethod(counted)
    /\ UNCHANGED <<remote, outsideImport>>

\* The client call the import is about to make, if its next step makes one.
PendingRequest(call) ==
    LET args == call.args[1]
    IN  IF call.pc = "list" THEN Some(Request(ListOp(args.kind), "GET", 0, FALSE))
        ELSE IF call.pc = "base"
        THEN Some(IF call.existing # None
                  THEN Request(UpdateOp(args.kind), "PATCH",
                               call.existing[1].id, FALSE)
                  ELSE Request(CreateOp(args.kind), "POST", 0, FALSE))
        ELSE IF call.pc = "value_types"
        THEN Some(Request("list_value_types", "GET", 0, FALSE))
        ELSE IF call.pc = "sections"
        THEN Some(Request("list_property_sections", "GET", 0, FALSE))
        ELSE IF call.pc = "properties"
        THEN LET prop == args.properties[call.i]
             IN  IF /\ Lookup(ValueTypeIds, prop.value_type) # None
                    /\ Lookup(SectionIds, prop.section) # None
                 THEN Some(Request(IF args.kind = "datasource_type"
                                   THEN "create_datasource_type_property"
                                   ELSE "create_activator_type_property",
                                   "POST", call.type_id, FALSE))
                 ELSE None
        ELSE IF call.pc = "methods"
        THEN Some(Request("create_datasource_type_method", "POST",
                          call.type_id, FALSE))
        ELSE IF call.pc = "parameters"
        THEN LET param == call.methods[call.i].parameters[call.k]
             IN  IF Lookup(ValueTypeIds, param.value_type) # None
                 THEN Some(Request("create_method_parameter", "POST",
                                   call.method_id, FALSE))
                 ELSE None
        ELSE None

\* The client call the import is waiting for raises an exception that is no
\* GimsApiError: _request lets the httpx.RequestError of client.request
\* through (client.py lines 223 and 229).  No `except GimsApiError` of the
\* import catches it, so the import ends there, and `except Exception` of
\* handle_sync_tool (lines 153-154) returns "Error: {format_error(e)}".
\* The remote is taken not to have carried the request out.
RequestRaises ==
    /\ import_call.pc \notin {"idle", "done"}
    /\ PendingRequest(import_call) # None
    /\ requests' = Append(requests,
                          [PendingRequest(import_call)[1] EXCEPT !.raised = TRUE])
    /\ import_call' = Failed(import_call, ExceptionResult)
    /\ UNCHANGED <<remote, outsideImport>>

(***************************************************************************)
(* Serializers: gims_mcp/serializers.py                                    *)
(***************************************************************************)

\* dict.get(key, default)
Get(d, key, default) == IF key \in DOMAIN d THEN d[key] ELSE default

\* `if d.get(key):` for a text value
Truthy(d, key) == key \in DOMAIN d /\ d[key] # ""

\* The keys of the exported documents, in the order yaml.dump sorts them.
SortedKeys ==
    <<"code_file", "default_value", "description", "exported_at",
      "exported_from", "gims_folder", "gims_updated_at", "input_type",
      "is_hidden", "is_inner", "is_required", "label", "name", "parameters",
      "params_file", "properties", "section", "value_type", "version">>

\* yaml.dump of a mapping of scalars: the `key: value` lines in key order.
YamlDump(d) ==
    LET keys == SelectSeq(SortedKeys, LAMBDA k : k \in DOMAIN d)
    IN  [i \in 1..Len(keys) |-> <<keys[i], d[keys[i]]>>]

\* yaml.safe_load of such a document: the mapping of its lines.
YamlLoad(doc) ==
    [k \in {doc[i][1] : i \in 1..Len(doc)} |->
        doc[CHOOSE i \in 1..Len(doc) : doc[i][1] = k][2]]

\* yaml.dump / yaml.safe_load of {key: [mapping, ...]}.
YamlDumpList(key, items) ==
    <<<<key, [i \in 1..Len(items) |-> YamlDump(items[i])]>>>>

YamlLoadList(doc) ==
    [k \in {doc[i][1] : i \in 1..Len(doc)} |->
        LET items == doc[CHOOSE i \in 1..Len(doc) : doc[i][1] = k][2]
        IN  [n \in 1..Len(items) |-> YamlLoad(items[n])]]

\* A path of the document set, by its segments between the slashes; a label
\* is the sequence of the segments it contributes.
MetaPath == <<"meta.yaml">>

CodePath == <<"code.py">>

PropertiesPath == <<"properties.yaml">>

MethodPath(label, file) == <<"methods">> \o label \o <<file>>

DefaultSection == "Osnovnye"

\* serializers.serialize_property
serialize_property(prop) ==
    LET result ==
            [name |-> prop["name"],
             label |-> prop["label"],
             value_type |-> Get(prop, "value_type_name", Get(prop, "value_type", "")),
             default_value |-> Get(prop, "default_value", ""),
             section |-> Get(prop, "section_name", Get(prop, "section", DefaultSection)),
             is_required |-> Get(prop, "is_required", FALSE),
             is_hidden |-> Get(prop, "is_hidden", FALSE),
             is_inner |-> Get(prop, "is_inner", FALSE),
             description |-> Get(prop, "description", "")]
    IN  IF Truthy(prop, "updated_at")
        THEN ("gims_updated_at" :> prop["updated_at"]) @@ result
        ELSE result

\* serializers.serialize_parameter
serialize_parameter(param) ==
    LET result ==
            [label |-> param["label"],
             input_type |-> Get(param, "input_type", TRUE),
             value_type |-> Get(param, "value_type_name", Get(param, "value_type", "")),
             default_value |-> Get(param, "default_value", ""),
             description |-> Get(param, "description", ""),
             is_hidden |-> Get(param, "is_hidden", FALSE)]
    IN  IF Truthy(param, "updated_at")
        THEN ("gims_updated_at" :> param["updated_at"]) @@ result
        ELSE result

\* [serialize_property(p) for p in ...] / [serialize_parameter(p) for p in ...]
SerializedProperties(props) == [i \in 1..Len(props) |-> serialize_property(props[i])]

SerializedParameters(params) == [i \in 1..Len(params) |-> serialize_parameter(params[i])]

\* The meta mapping of an entity, with gims_updated_at if the entity has a
\* last-modified timestamp.
WithUpdatedAt(meta, data) ==
    IF Truthy(data, "updated_at")
    THEN ("gims_updated_at" :> data["updated_at"]) @@ meta
    ELSE meta

\* serializers.serialize_script, as the files _export_script returns.
serialize_script(script_data, gims_url, now) ==
    LET meta ==
            [name |-> script_data["name"],
             description |-> Get(script_data, "description", ""),
             version |-> "1.0",
             gims_folder |-> Get(script_data, "folder_path", "/"),
             code_file |-> "code.py",
             exported_at |-> now,
             exported_from |-> gims_url]
    IN  (MetaPath :> YamlDump(WithUpdatedAt(meta, script_data)))
            @@ (CodePath :> Get(script_data, "code", ""))

\* The three files serialize_datasource_type writes for one method.
MethodFiles(method) ==
    LET method_meta ==
            [name |-> method["name"],
             label |-> method["label"],
             description |-> Get(method, "description", ""),
             code_file |-> "code.py",
             params_file |-> "params.yaml"]
    IN  (MethodPath(method["label"], "meta.yaml") :>
                YamlDump(WithUpdatedAt(method_meta, method)))
        @@ (MethodPath(method["label"], "code.py") :> Get(method, "code", NoCode))
        @@ (MethodPath(method["label"], "params.yaml") :>
                YamlDumpList("parameters",
                    SerializedParameters(Get(method, "parameters", <<>>))))

\* The files after the first n methods: each method's assignments replace
\* what the dict held under the same paths.
RECURSIVE FilesOfMethods(_, _, _)
FilesOfMethods(files, methods, n) ==
    IF n = 0 THEN files
    ELSE MethodFiles(methods[n]) @@ FilesOfMethods(files, methods, n - 1)

\* serializers.serialize_datasource_type
serialize_datasource_type(type_data, gims_url, now) ==
    LET meta ==
            [name |-> type_data["name"],
             description |-> Get(type_data, "description", ""),
             version |-> Get(type_data, "version", "1.0"),
             gims_folder |-> Get(type_data, "folder_path", "/"),
             exported_at |-> now,
             exported_from |-> gims_url]
        files ==
            (MetaPath :> YamlDump(WithUpdatedAt(meta, type_data)))
            @@ (PropertiesPath :>
                    YamlDumpList("properties",
                        SerializedProperties(Get(type_data, "properties", <<>>))))
        methods == Get(type_data, "methods", <<>>)
    IN  FilesOfMethods(files, methods, Len(methods))

\* serializers.serialize_activator_type
serialize_activator_type(type_data, gims_url, now) ==
    LET meta ==
            [name |-> type_data["name"],
             description |-> Get(type_data, "description", ""),
             version |-> Get(type_data, "version", "1.0"),
             gims_folder |-> Get(type_data, "folder_path", "/"),
             code_file |-> "code.py",
             exported_at |-> now,
             exported_from |-> gims_url]
    IN  (MetaPath :> YamlDump(WithUpdatedAt(meta, type_data)))
        @@ (CodePath :> Get(type_data, "code", NoCode))
        @@ (PropertiesPath :>
                YamlDumpList("properties",
                    SerializedProperties(Get(type_data, "properties", <<>>))))

\* serializers.deserialize_script on yaml.safe_load(meta.yaml) and code.py
deserialize_script(meta, code) ==
    [name |-> meta["name"],
     code |-> code,
     description |-> Get(meta, "description", "")]

\* files.get("meta.yaml", "{}") and files.get("properties.yaml",
\* "properties: []"), loaded.
LoadedMeta(files) ==
    IF MetaPath \in DOMAIN files THEN YamlLoad(files[MetaPath]) ELSE YamlLoad(<<>>)

LoadedProperties(files) ==
    IF PropertiesPath \in DOMAIN files
    THEN Get(YamlLoadList(files[PropertiesPath]), "properties", <<>>)
    ELSE <<>>

\* The labels deserialize_datasource_type collects: path.split("/")[1] of
\* every path that starts with "methods/" and has a further slash.
MethodFolderLabels(files) ==
    {path[2] : path \in {q \in DOMAIN files : Len(q) >= 3 /\ q[1] = "methods"}}

\* The method deserialize_datasource_type builds for a collected label whose
\* methods/<label>/meta.yaml is among the files.
RestoredMethod(files, label) ==
    LET method_meta == YamlLoad(files[MethodPath(<<label>>, "meta.yaml")])
        method_code_path == MethodPath(<<label>>, "code.py")
        method_params_path == MethodPath(<<label>>, "params.yaml")
    IN  [name |-> Get(method_meta, "name", label),
         label |-> Get(method_meta, "label", <<label>>),
         description |-> Get(method_meta, "description", ""),
         code |-> Get(files, method_code_path, NoCode),
         parameters |->
             IF method_params_path \in DOMAIN files
             THEN Get(YamlLoadList(files[method_params_path]), "parameters", <<>>)
             ELSE <<>>]

\* The collected labels that have their meta.yaml.
RestorableLabels(files) ==
    {l \in MethodFolderLabels(files) : MethodPath(<<l>>, "meta.yaml") \in DOMAIN files}

\* serializers.deserialize_datasource_type; `order` is the order in which
\* the set of labels is iterated.
deserialize_datasource_type(files, order) ==
    LET meta == LoadedMeta(files)
    IN  [name |-> Get(meta, "name", ""),
         description |-> Get(meta, "description", ""),
         version |-> Get(meta, "version", "1.0"),
         properties |-> LoadedProperties(files),
         methods |-> [i \in 1..Len(order) |-> RestoredMethod(files, order[i])]]

\* serializers.deserialize_activator_type
deserialize_activator_type(files) ==
    LET meta == LoadedMeta(files)
    IN  [name |-> Get(meta, "name", ""),
         description |-> Get(meta, "description", ""),
         version |-> Get(meta, "version", "1.0"),
         code |-> Get(files, CodePath, NoCode),
         properties |-> LoadedProperties(files)]

\* Records as the GIMS API returns them.
EntityNames == {"Test", "HTTP Poller"}

EntityDescriptions == {"", "Poll endpoints"}

EntityCodes == {ValidCode, "# poll code"}

GimsUrl == "https://gims.test"

ExportTimes == {"2024-01-01T00:00:00+00:00", "2024-01-02T00:00:00+00:00"}

IntervalProperty ==
    [id |-> 7, name |-> "Interval", label |-> "interval",
     value_type_name |-> "int", default_value |-> "60",
     section_name |-> "Main", is_required |-> TRUE, is_hidden |-> FALSE,
     is_inner |-> FALSE, description |-> ""]

HostProperty ==
    [id |-> 8, name |-> "Host", label |-> "host", value_type_name |-> "str",
     default_value |-> "", section_name |-> "Connection",
     is_required |-> FALSE, is_hidden |-> TRUE, is_inner |-> TRUE,
     description |-> "Target host", updated_at |-> "2023-12-31T10:00:00Z"]

ApiPropertyLists == {<<>>, <<IntervalProperty>>, <<HostProperty, IntervalProperty>>}

TimeoutParameter ==
    [id |-> 3, label |-> "timeout", input_type |-> TRUE,
     value_type_name |-> "int", default_value |-> "30", description |-> "",
     is_hidden |-> FALSE]

ResultParameter ==
    [id |-> 4, label |-> "result", input_type |-> FALSE,
     value_type_name |-> "str", default_value |-> "",
     description |-> "Response body", is_hidden |-> TRUE]

ApiParameterLists == {<<>>, <<TimeoutParameter, ResultParameter>>}

\* Method labels, by segments: "fetch", "push" and "get/all".
ApiMethodLabels == {<<"fetch">>, <<"push">>, <<"get", "all">>}

ApiMethods ==
    [name : {"Fetch", "Push"}, label : ApiMethodLabels, code : {ValidCode},
     description : {""}, parameters : ApiParameterLists]

\* Largest number of methods of a datasource type.
MaxMethods == 2

ApiMethodLists == UNION { [1..n -> ApiMethods] : n \in 0..MaxMethods }

ScriptRecords ==
    [name : EntityNames, code : EntityCodes, description : EntityDescriptions]
    \cup [name : EntityNames, code : EntityCodes, description : EntityDescriptions,
          updated_at : {"2023-12-31T10:00:00Z"}]

ActivatorTypeRecords ==
    [name : EntityNames, description : EntityDescriptions,
     version : {"1.0", "2.1"}, code : EntityCodes, properties : ApiPropertyLists]

DatasourceTypeRecords ==
    [name : EntityNames, description : {"Poll endpoints"}, version : {"1.0"},
     properties : ApiPropertyLists, methods : ApiMethodLists]

NoRoundTrip == [pc |-> "idle"]

SerializerQuiet == round_trip = NoRoundTrip

SerializerInit == round_trip = NoRoundTrip

\* One call of a serializer (serialize_script, serialize_activator_type or
\* serialize_datasource_type) on one entity record with its properties and
\* methods attached: a pure function of its argument, without an await.
\* The reads by which an export tool of sync.py assembles the record are
\* not part of it.
Serialize(kind, entity, now) ==
    /\ round_trip.pc = "idle"
    /\ round_trip' =
           [pc |-> "serialized", kind |-> kind, entity |-> entity,
            files |-> IF kind = "script"
                      THEN serialize_script(entity, GimsUrl, now)
                      ELSE IF kind = "activator_type"
                      THEN serialize_activator_type(entity, GimsUrl, now)
                      ELSE serialize_datasource_type(entity, GimsUrl, now)]
    /\ UNCHANGED outsideSerializers

\* The re-import of the document set of a script.
DeserializeScript ==
    /\ round_trip.pc = "serialized"
    /\ round_trip.kind = "script"
    /\ round_trip' =
           [round_trip EXCEPT !.pc = "restored"] @@
           [restored |-> deserialize_script(YamlLoad(round_trip.files[MetaPath]),
                                            round_trip.files[CodePath])]
    /\ UNCHANGED outsideSerializers

\* The re-import of the document set of an activator type.
DeserializeActivatorType ==
    /\ round_trip.pc = "serialized"
    /\ round_trip.kind = "activator_type"
    /\ round_trip' =
           [round_trip EXCEPT !.pc = "restored"] @@
           [restored |-> deserialize_activator_type(round_trip.files)]
    /\ UNCHANGED outsideSerializers

\* The re-import of the document set of a datasource type, the set of
\* labels iterated in any order.
DeserializeDatasourceType ==
    /\ round_trip.pc = "serialized"
    /\ round_trip.kind = "datasource_type"
    /\ \E order \in Orders(RestorableLabels(round_trip.files)) :
           round_trip' =
               [round_trip EXCEPT !.pc = "restored"] @@
               [restored |-> deserialize_datasource_type(round_trip.files, order)]
    /\ UNCHANGED outsideSerializers

(***************************************************************************)
(* Error details: GimsClient._sanitize_error_response and its two callers  *)
(***************************************************************************)

\* text[i:j] of Python for 0 <= i <= j, clipped to the text.
Slice(text, i, j) ==
    SubSeq(text, i + 1, IF j < Len(text) THEN j ELSE Len(text))

\* text[i:i + 1] of Python for i >= 0: the character at i, or the empty text
\* past the end, which is how a pattern fails to match there.
CharAt(text, i) ==
    IF 0 <= i /\ i < Len(text) THEN SubSeq(text, i + 1, i + 1) ELSE ""

\* text.startswith(prefix, at)
StartsWithAt(text, prefix, at) ==
    /\ at + Len(prefix) <= Len(text)
    /\ Slice(text, at, at + Len(prefix)) = prefix

\* sub in text
Contains(text, sub) ==
    \E at \in 0..Len(text) : StartsWithAt(text, sub, at)

\* The characters str.strip() removes from an ASCII text, those str.isspace()
\* accepts: space, \t, \n, \x0b, \f, \r and the separators \x1c to \x1f.
Whitespace ==
    {" ", "\t", "\n", "\f", "\r",
     "", "", "", "", ""}

\* text.strip()
Strip(text) ==
    LET solid == {i \in 0..(Len(text) - 1) : CharAt(text, i) \notin Whitespace}
    IN  IF solid = {} THEN ""
        ELSE LET first == CHOOSE i \in solid : \A j \in solid : i <= j
                 last == CHOOSE i \in solid : \A j \in solid : j <= i
             IN  Slice(text, first, last + 1)

\* The two spellings re.IGNORECASE accepts for each letter of the tag name.
TitleLetters ==
    <<{"t", "T"}, {"i", "I"}, {"t", "T"}, {"l", "L"}, {"e", "E"}>>

\* text[at:] starts with the tag name "title", in any case.
TitleNameAt(text, at) ==
    /\ at + 5 <= Len(text)
    /\ \A n \in 1..5 : CharAt(text, at + n - 1) \in TitleLetters[n]

\* The least element of a non-empty set of positions.
Least(positions) == CHOOSE i \in positions : \A j \in positions : i <= j

\* A match of <title[^>]*>([^<]+)</title> that starts at position at: the
\* text of its group, or None.
TitleMatchAt(text, at) ==
    IF ~(CharAt(text, at) = "<" /\ TitleNameAt(text, at + 1))
    THEN None
    ELSE LET closes == {i \in (at + 6)..(Len(text) - 1) : CharAt(text, i) = ">"}
         IN  IF closes = {} THEN None
             ELSE LET open == Least(closes) + 1
                      opens == {i \in open..(Len(text) - 1) :
                                    CharAt(text, i) = "<"}
                  IN  IF opens = {} \/ Least(opens) = open THEN None
                      ELSE IF /\ Least(opens) + 7 < Len(text)
                              /\ CharAt(text, Least(opens) + 1) = "/"
                              /\ TitleNameAt(text, Least(opens) + 2)
                              /\ CharAt(text, Least(opens) + 7) = ">"
                      THEN Some(Slice(text, open, Least(opens)))
                      ELSE None

\* re.search(r"<title[^>]*>([^<]+)</title>", text, re.IGNORECASE): the group
\* of the leftmost match, or None.
TitleSearch(text) ==
    LET starts == {at \in 0..(Len(text) - 1) : TitleMatchAt(text, at) # None}
    IN  IF starts = {} THEN None ELSE TitleMatchAt(text, Least(starts))

\* The HTML test of line 182.
IsHtmlResponse(response) ==
    \/ Contains(response.ctype, "text/html")
    \/ \E prefix \in {"<!DOCTYPE", "<html", "<HTML"} :
          StartsWithAt(Strip(response.body), prefix, 0)

MaxErrorText == 500

\* GimsClient._sanitize_error_response
_sanitize_error_response(response) ==
    IF IsHtmlResponse(response)
    THEN IF TitleSearch(response.body) # None
         THEN "Server returned HTML error page: "
                  \o Strip(TitleSearch(response.body)[1])
         ELSE "Server returned HTML error page (content filtered)"
    ELSE IF Len(response.body) > MaxErrorText
    THEN Slice(response.body, 0, MaxErrorText) \o "... (truncated, "
             \o ToString(Len(response.body)) \o " bytes total)"
    ELSE response.body

\* The bodies of failed responses: error pages, plain texts around the cut,
\* and JSON texts.
ErrorBodies ==
    {"<html><head><title>502 Bad Gateway</title></head></html>",
     "<!DOCTYPE html><html><body><h1>Server Error</h1></body></html>",
     " \f<HTML><TITLE lang=\"en\"> Service Unavailable\f </TITLE></HTML>",
     "<html><title></title><body>" \o Filler(600) \o "</body></html>",
     "upstream timed out", "", Filler(500), Filler(501),
     "{\"detail\": \"Bad request\"}", "{\"id\": 1}", "[1]"}

ErrorContentTypes ==
    {"text/html", "text/html; charset=utf-8", "text/plain", "application/json",
     ""}

ErrorStatuses == {400, 500, 502}

ErrorResponses ==
    [status : ErrorStatuses, ctype : ErrorContentTypes, body : ErrorBodies]

\* response.json() succeeds, for the texts of ErrorBodies.
IsJsonError(body) ==
    body \in {"{\"detail\": \"Bad request\"}", "{\"id\": 1}", "[1]"}

\* data.get("detail", str(data)) for the JSON texts of ErrorBodies: the value
\* for an object, None where a list has no get (AttributeError).
JsonErrorDetail(body) ==
    CASE body = "{\"detail\": \"Bad request\"}" -> Some("Bad request")
      [] body = "{\"id\": 1}" -> Some("{'id': 1}")
      [] body = "[1]" -> None

\* The detail of the GimsApiError that _handle_response raises for a status
\* of 400 or more other than 401, 403 and 404 (lines 143-149).
RequestErrorDetail(response) ==
    IF IsJsonError(response.body) /\ JsonErrorDetail(response.body) # None
    THEN JsonErrorDetail(response.body)[1]
    ELSE _sanitize_error_response(response)

\* The detail of the GimsApiError that _refresh_access_token raises for a
\* status other than 200 and 401 (lines 106-116).
RefreshErrorDetail(response) ==
    IF IsJsonError(response.body) /\ JsonErrorDetail(response.body) # None
    THEN JsonErrorDetail(response.body)[1]
    ELSE response.body

NoReport == [path |-> "none"]

ErrorQuiet == reported = NoReport

\* A request is answered with a failure and the error reaches the caller.
ReportRequestError(response) ==
    /\ reported = NoReport
    /\ response.status >= 400 /\ response.status \notin {401, 403, 404}
    /\ reported' = [path |-> "request", response |-> response,
                    message |-> "API error",
                    detail |-> RequestErrorDetail(response)]
    /\ UNCHANGED outsideErrors

\* The refresh endpoint answers with a failure and the error reaches the
\* caller of the request that triggered the refresh.
ReportRefreshError(response) ==
    /\ reported = NoReport
    /\ response.status \notin {200, 401}
    /\ reported' = [path |-> "refresh", response |-> response,
                    message |-> "token_refresh_failed",
                    detail |-> RefreshErrorDetail(response)]
    /\ UNCHANGED outsideErrors

(***************************************************************************)
(* Paths: utils.build_folder_paths and utils.build_item_paths              *)
(***************************************************************************)

MaxFolders == 3

\* None as a folder id or folder reference (JSON null); the ids of the remote
\* are positive.
NullId == 0

FolderIds == 1..MaxFolders

\* A reference no folder of the list carries.
DanglingId == MaxFolders + 1

\* Folders of different ids may carry the same name.
FolderName(id) == IF id % 2 = 1 THEN "scripts" ELSE "utils"

ApiFolder(id, parent) ==
    [id |-> id, name |-> FolderName(id), parent_folder_id |-> parent]

ApiFolders ==
    {ApiFolder(id, parent) :
        id \in FolderIds, parent \in {NullId, DanglingId} \cup FolderIds}

\* The folder lists of the remote: folders of distinct ids in any order, with
\* parent references that may be null, dangling or cyclic.
FolderLists ==
    {folders \in UNION {[1..n -> ApiFolders] : n \in 0..MaxFolders} :
        \A i, j \in DOMAIN folders : folders[i].id = folders[j].id => i = j}

\* folder_map = {f[id_field]: f for f in folders}: a later folder of an id
\* replaces an earlier one.
FolderMap(folders) ==
    [id \in {folders[i].id : i \in DOMAIN folders} |->
        folders[CHOOSE i \in DOMAIN folders :
                   /\ folders[i].id = id
                   /\ \A j \in DOMAIN folders : folders[j].id = id => j <= i]]

\* "/".join(parts)
RECURSIVE JoinSlash(_)
JoinSlash(parts) ==
    IF parts = <<>> THEN ""
    ELSE IF Len(parts) = 1 THEN parts[1]
    ELSE parts[1] \o "/" \o JoinSlash(Tail(parts))

\* The while loop of get_path from one parent reference on: the parts once
\* the loop ends, or None when it never ends (the references run in a cycle,
\* which the loop re-enters after at most one step per folder).
RECURSIVE WalkParents(_, _, _, _)
WalkParents(folder_map, parts, parent_id, steps) ==
    IF parent_id = NullId \/ parent_id \notin DOMAIN folder_map
    THEN Some(parts)
    ELSE IF steps > Cardinality(DOMAIN folder_map)
    THEN None
    ELSE WalkParents(folder_map, <<folder_map[parent_id].name>> \o parts,
                     folder_map[parent_id].parent_folder_id, steps + 1)

\* get_path with a single step up instead of the loop.
GetPathOfParentOnly(folder_map, folder) ==
    LET parent_id == folder.parent_folder_id
        parts == IF parent_id = NullId \/ parent_id \notin DOMAIN folder_map
                 THEN <<folder.name>>
                 ELSE <<folder_map[parent_id].name, folder.name>>
    IN  Some("/" \o JoinSlash(parts))

\* get_path of build_folder_paths: the path, or None when the loop never ends.
get_path(folder_map, folder) ==
    LET parts == WalkParents(folder_map, <<folder.name>>,
                             folder.parent_folder_id, 0)
    IN  IF parts = None THEN None ELSE Some("/" \o JoinSlash(parts[1]))

\* The synthetic root entry of lines 94-102.
RootEntry ==
    [id |-> NullId, name |-> "/", parent_folder_id |-> NullId, path |-> "/",
     is_root |-> TRUE]

WithPath(folder, path) ==
    [id |-> folder.id, name |-> folder.name,
     parent_folder_id |-> folder.parent_folder_id, path |-> path,
     is_root |-> FALSE]

NoReturn == [returned |-> FALSE]

Returned(value) == [returned |-> TRUE, value |-> value]

\* build_folder_paths with a walk that gives up on a cycle: a folder that is
\* its own ancestor gets the path "/" + its name.
BuildFolderPathsDefended(folders, include_root) ==
    LET folder_map == FolderMap(folders)
        paths == [i \in DOMAIN folders |-> get_path(folder_map, folders[i])]
    IN  Returned((IF include_root THEN <<RootEntry>> ELSE <<>>)
                 \o [i \in DOMAIN folders |->
                        WithPath(folders[i],
                                 IF paths[i] = None
                                 THEN "/" \o folders[i].name
                                 ELSE paths[i][1])])

\* utils.build_folder_paths
build_folder_paths(folders, include_root) ==
    LET folder_map == FolderMap(folders)
        paths == [i \in DOMAIN folders |-> get_path(folder_map, folders[i])]
    IN  IF \E i \in DOMAIN folders : paths[i] = None
        THEN NoReturn
        ELSE Returned((IF include_root THEN <<RootEntry>> ELSE <<>>)
                      \o [i \in DOMAIN folders |->
                             WithPath(folders[i], paths[i][1])])

MaxItems == 2

ItemNames == {"poll", "main"}

ApiItems ==
    [name : ItemNames, folder_id : {NullId, DanglingId} \cup FolderIds]

ItemLists == UNION {[1..n -> ApiItems] : n \in 0..MaxItems}

\* The folder lists handed to build_item_paths: what build_folder_paths
\* returned for a tree, with and without the root entry.
PathedFolderLists ==
    {build_folder_paths(folders, include_root).value :
        folders \in {<<>>, <<ApiFolder(1, NullId)>>,
                     <<ApiFolder(1, NullId), ApiFolder(2, 1)>>,
                     <<ApiFolder(2, 1), ApiFolder(1, NullId)>>},
        include_root \in BOOLEAN}

\* folder_paths = {f[folder_lookup_field]: f.get("path", "/") for f in folders}
FolderPaths(folders) ==
    [id \in {folders[i].id : i \in DOMAIN folders} |->
        folders[CHOOSE i \in DOMAIN folders :
                   /\ folders[i].id = id
                   /\ \A j \in DOMAIN folders : folders[j].id = id => j <= i].path]

ItemWithPath(item, path) ==
    [name |-> item.name, folder_id |-> item.folder_id, path |-> path]

\* build_item_paths without the test for a null reference of line 136.
BuildItemPathsByLookupOnly(items, folders) ==
    LET folder_paths == FolderPaths(folders)
    IN  [i \in DOMAIN items |->
            IF items[i].folder_id \in DOMAIN folder_paths
            THEN ItemWithPath(items[i],
                              folder_paths[items[i].folder_id] \o "/"
                                  \o items[i].name)
            ELSE ItemWithPath(items[i], "/" \o items[i].name)]

\* utils.build_item_paths
build_item_paths(items, folders) ==
    LET folder_paths == FolderPaths(folders)
    IN  [i \in DOMAIN items |->
            IF /\ items[i].folder_id # NullId
               /\ items[i].folder_id \in DOMAIN folder_paths
            THEN ItemWithPath(items[i],
                              folder_paths[items[i].folder_id] \o "/"
                                  \o items[i].name)
            ELSE ItemWithPath(items[i], "/" \o items[i].name)]

NoUtilCall == [fn |-> "none"]

UtilQuiet == util_call = NoUtilCall

\* One call of build_folder_paths.
BuildFolderPaths(folders, include_root) ==
    /\ util_call = NoUtilCall
    /\ util_call' = [fn |-> "build_folder_paths", folders |-> folders,
                     include_root |-> include_root,
                     result |-> build_folder_paths(folders, include_root)]
    /\ UNCHANGED outsideUtils

\* One call of build_item_paths.
BuildItemPaths(items, folders) ==
    /\ util_call = NoUtilCall
    /\ util_call' = [fn |-> "build_item_paths", items |-> items,
                     folders |-> folders,
                     result |-> Returned(build_item_paths(items, folders))]
    /\ UNCHANGED outsideUtils

(***************************************************************************)
(* Code search: utils.search_in_code                                       *)
(***************************************************************************)

UpperCase == "ABCDEFGHIJKLMNOPQRSTUVWXYZ"

LowerCase == "abcdefghijklmnopqrstuvwxyz"

Digits == "0123456789"

\* The position of a character in an alphabet, from 0; -1 when it is not in.
IndexIn(alphabet, ch) ==
    IF \E i \in 0..(Len(alphabet) - 1) : CharAt(alphabet, i) = ch
    THEN CHOOSE i \in 0..(Len(alphabet) - 1) : CharAt(alphabet, i) = ch
    ELSE -1

\* The lower-case letter of every upper-case one.
FoldMap ==
    [ch \in {CharAt(UpperCase, i) : i \in 0..(Len(UpperCase) - 1)} |->
        CharAt(LowerCase, IndexIn(UpperCase, ch))]

\* The case folding of re.IGNORECASE for one ASCII character.
FoldChar(ch) == IF ch \in DOMAIN FoldMap THEN FoldMap[ch] ELSE ch

\* The same for a text.
RECURSIVE FoldText(_)
FoldText(text) ==
    IF Len(text) = 0 THEN ""
    ELSE IF Len(text) = 1 THEN FoldChar(text)
    ELSE FoldText(Slice(text, 0, Len(text) \div 2))
             \o FoldText(Slice(text, Len(text) \div 2, Len(text)))

\* No upper limit on a repetition.
Unbounded == -1

\* One item of a compiled pattern: a character or the dot, repeated from min
\* to max times, greedily.
Atom(any, ch, min, max) == [any |-> any, ch |-> ch, min |-> min, max |-> max]

Compiled(atoms) == [kind |-> "pattern", atoms |-> atoms]

CompileError(kind) == [kind |-> kind, atoms |-> <<>>]

\* The number a text of decimal digits denotes.
RECURSIVE DigitsValue(_)
DigitsValue(digits) ==
    IF Len(digits) = 0 THEN 0
    ELSE 10 * DigitsValue(Slice(digits, 0, Len(digits) - 1))
             + IndexIn(Digits, CharAt(digits, Len(digits) - 1))

\* The digits are a repetition count of sre's MAXREPEAT (4294967295) or more.
AtLeastMaxRepeat(digits) ==
    \/ Len(digits) > 10
    \/ /\ Len(digits) = 10
       /\ \/ DigitsValue(Slice(digits, 0, 5)) > 42949
          \/ /\ DigitsValue(Slice(digits, 0, 5)) = 42949
             /\ DigitsValue(Slice(digits, 5, 10)) >= 67295

\* The position of the "}" that closes a "{digits}" opened at position at, or
\* -1 when the text from there is not of that form.
RepeatClose(query, at) ==
    LET closes == {i \in (at + 2)..(Len(query) - 1) :
                      /\ CharAt(query, i) = "}"
                      /\ \A j \in (at + 1)..(i - 1) :
                            IndexIn(Digits, CharAt(query, j)) >= 0}
    IN  IF closes = {} THEN -1 ELSE Least(closes)

WithRepeat(atoms, min, max) ==
    [atoms EXCEPT ![Len(atoms)] = Atom(@.any, @.ch, min, max)]

\* sre's parse of the queries of the model, from position at on: characters,
\* the dot, the repeats * + ? and {n} on a single item, and the three ways a
\* query of the model fails to compile: a repeat with nothing before it, an
\* unterminated group or character set, and a repeat count too large.
RECURSIVE Parse(_, _, _)
Parse(query, at, atoms) ==
    IF at >= Len(query) THEN Compiled(atoms)
    ELSE LET ch == CharAt(query, at) IN
         IF ch \in {"*", "+", "?"}
         THEN IF atoms = <<>> THEN CompileError("re.error")
              ELSE Parse(query, at + 1,
                         WithRepeat(atoms, IF ch = "+" THEN 1 ELSE 0,
                                    IF ch = "?" THEN 1 ELSE Unbounded))
         ELSE IF ch = "{" /\ RepeatClose(query, at) >= 0
         THEN LET digits == Slice(query, at + 1, RepeatClose(query, at)) IN
              IF atoms = <<>> THEN CompileError("re.error")
              ELSE IF AtLeastMaxRepeat(digits)
              THEN CompileError("OverflowError")
              ELSE Parse(query, RepeatClose(query, at) + 1,
                         WithRepeat(atoms, DigitsValue(digits),
                                    DigitsValue(digits)))
         ELSE IF ch = "(" /\ ~Contains(Slice(query, at, Len(query)), ")")
         THEN CompileError("re.error")
         ELSE IF ch = "[" /\ ~Contains(Slice(query, at + 2, Len(query)), "]")
         THEN CompileError("re.error")
         ELSE IF ch = "."
         THEN Parse(query, at + 1, Append(atoms, Atom(TRUE, ".", 1, 1)))
         ELSE Parse(query, at + 1, Append(atoms, Atom(FALSE, ch, 1, 1)))

\* re.compile(query, flags)
Compile(query) == Parse(query, 0, <<>>)

\* re.compile(re.escape(query), flags): every character stands for itself.
CompileEscaped(query) ==
    Compiled([i \in 1..Len(query) |->
                 Atom(FALSE, CharAt(query, i - 1), 1, 1)])

\* The pattern of lines 166-172: the compiled query, the escaped query after
\* re.error, or the exception that leaves search_in_code.
PatternOf(query) ==
    IF Compile(query).kind = "re.error"
    THEN CompileEscaped(query)
    ELSE Compile(query)

\* The item matches the character at a position of the text.
AtomMatches(atom, text, at, case_sensitive) ==
    IF atom.any THEN CharAt(text, at) # "\n"
    ELSE IF case_sensitive THEN CharAt(text, at) = atom.ch
    ELSE FoldChar(CharAt(text, at)) = FoldChar(atom.ch)

\* The longest run of characters from a position on that the item matches,
\* up to its max.
LongestRun(atom, text, at, case_sensitive) ==
    LET last == IF atom.max # Unbounded /\ at + atom.max < Len(text)
                THEN at + atom.max
                ELSE Len(text)
    IN  Least({i \in at..(last - 1) :
                  ~AtomMatches(atom, text, i, case_sensitive)}
              \cup {last}) - at

\* sre's match of the items k.. at position at, for an attempt that began at
\* start: the end of the match the backtracking finds first (each repeat as
\* long as the rest allows), or -1. With must_advance an empty match is no
\* match.
RECURSIVE MatchFrom(_, _, _, _, _, _, _)
MatchFrom(atoms, k, text, at, start, must_advance, case_sensitive) ==
    IF k > Len(atoms)
    THEN IF must_advance /\ at = start THEN -1 ELSE at
    ELSE LET longest == LongestRun(atoms[k], text, at, case_sensitive)
             fits == {n \in atoms[k].min..longest :
                         MatchFrom(atoms, k + 1, text, at + n, start,
                                   must_advance, case_sensitive) # -1}
         IN  IF fits = {} THEN -1
             ELSE MatchFrom(atoms, k + 1, text,
                            at + (CHOOSE n \in fits : \A m \in fits : m <= n),
                            start, must_advance, case_sensitive)

\* The search of one finditer step: the first position in lo..hi at which
\* the pattern matches, or -1; the attempt at position at, where the step
\* began, is the one must_advance applies to.
RECURSIVE NextStart(_, _, _, _, _, _, _)
NextStart(atoms, text, at, must_advance, case_sensitive, lo, hi) ==
    IF lo > hi THEN -1
    ELSE IF lo = hi
    THEN IF MatchFrom(atoms, 1, text, lo, lo, must_advance /\ lo = at,
                      case_sensitive) # -1
         THEN lo ELSE -1
    ELSE LET mid == (lo + hi) \div 2
             left == NextStart(atoms, text, at, must_advance, case_sensitive,
                               lo, mid)
         IN  IF left # -1 THEN left
             ELSE NextStart(atoms, text, at, must_advance, case_sensitive,
                            mid + 1, hi)

\* The state of pattern.finditer(code): the position the next search starts
\* at, whether the last match was empty there, and the matches so far.
Scanner(at, must_advance, matches, done) ==
    [at |-> at, must_advance |-> must_advance, matches |-> matches,
     done |-> done]

\* One step of the iterator: the next match from the position on, after an
\* empty match not an empty one at the same position; none overlaps another.
ScanStep(atoms, text, case_sensitive, scan) ==
    IF scan.done THEN scan
    ELSE LET s == NextStart(atoms, text, scan.at, scan.must_advance,
                            case_sensitive, scan.at, Len(text))
             end == MatchFrom(atoms, 1, text, s, s,
                              scan.must_advance /\ s = scan.at,
                              case_sensitive)
         IN  IF s = -1 THEN Scanner(scan.at, FALSE, scan.matches, TRUE)
             ELSE Scanner(end, end = s,
                          Append(scan.matches, [start |-> s, end |-> end]),
                          FALSE)

\* n steps of the iterator.
RECURSIVE ScanSteps(_, _, _, _, _)
ScanSteps(atoms, text, case_sensitive, scan, n) ==
    IF n = 0 \/ scan.done THEN scan
    ELSE IF n = 1 THEN ScanStep(atoms, text, case_sensitive, scan)
    ELSE ScanSteps(atoms, text, case_sensitive,
                   ScanSteps(atoms, text, case_sensitive, scan, n \div 2),
                   n - (n \div 2))

\* list(pattern.finditer(code)): a text has at most one match per position
\* and one more at its end.
FindIter(atoms, text, case_sensitive) ==
    ScanSteps(atoms, text, case_sensitive, Scanner(0, FALSE, <<>>, FALSE),
              Len(text) + 2).matches

MaxContexts == 5

ContextMargin == 50

\* matches[:5] without the limit.
EveryMatch(matches) == matches

\* matches[:5]
FirstMatches(matches) ==
    SubSeq(matches, 1, IF Len(matches) < MaxContexts THEN Len(matches)
                       ELSE MaxContexts)

\* Lines 188-194 for one match.
ContextOf(code, match) ==
    LET start == IF match.start - ContextMargin > 0
                 THEN match.start - ContextMargin ELSE 0
        end == IF match.end + ContextMargin < Len(code)
               THEN match.end + ContextMargin ELSE Len(code)
    IN  [position |-> match.start, context |-> Slice(code, start, end)]

\* A field of an item: a text, null, or not there.
Text(text) == [kind |-> "str", text |-> text]

NullField == [kind |-> "null", text |-> ""]

AbsentField == [kind |-> "absent", text |-> ""]

SearchItem(name, code) == [name |-> Text(name), code |-> code]

\* item.get(code_field, "")
FieldOf(item, code_field) == IF code_field = "name" THEN item.name ELSE item.code

\* `if not code: continue` passes every text, the empty one too.
SearchableWhenText(field) == field.kind = "str"

\* `if not code: continue` passes a non-empty text.
Searchable(field) == field.kind = "str" /\ field.text # ""

\* The result of lines 180-194 for the item at position i and its matches:
\* the item without its code unless include_code, and the match data. The
\* position is carried along to tell which item a result was made of.
SearchResult(items, i, code_field, include_code, matches) ==
    [index |-> i,
     item |-> IF include_code THEN items[i]
              ELSE [name |-> items[i].name, code |-> AbsentField],
     match_count |-> Len(matches),
     matched_in |-> code_field,
     matches |-> [n \in DOMAIN FirstMatches(matches) |->
                     ContextOf(FieldOf(items[i], code_field).text,
                               FirstMatches(matches)[n])]]

\* The loop of lines 174-197 from item i on.
RECURSIVE SearchFrom(_, _, _, _, _, _)
SearchFrom(items, i, atoms, code_field, case_sensitive, include_code) ==
    IF i > Len(items) THEN <<>>
    ELSE LET field == FieldOf(items[i], code_field)
             matches == IF Searchable(field)
                        THEN FindIter(atoms, field.text, case_sensitive)
                        ELSE <<>>
         IN  (IF matches # <<>>
              THEN <<SearchResult(items, i, code_field, include_code, matches)>>
              ELSE <<>>)
             \o SearchFrom(items, i + 1, atoms, code_field, case_sensitive,
                           include_code)

Raised(kind) == [returned |-> FALSE, raised |-> kind]

\* utils.search_in_code
search_in_code(items, query, code_field, case_sensitive, include_code) ==
    IF PatternOf(query).kind # "pattern"
    THEN Raised(PatternOf(query).kind)
    ELSE Returned(SearchFrom(items, 1, PatternOf(query).atoms, code_field,
                             case_sensitive, include_code))

\* The queries: a word, patterns with the dot and with repeats, the empty
\* query, and queries that do not compile.
Queries ==
    {"print", "pr.nt", "o+", "", "0{2}", "print(", "a{99999999999}"}

\* The code texts: short ones, one whose matches lie further than the margin
\* from both ends, one with more matches than contexts, and the empty text.
Codes ==
    {"print(1)", "import os\nPrint(os)",
     Filler(55) \o "foo(100)" \o Filler(55),
     "o, oo, ooo, a{99999999999}, 000, o, oo, OOO", ""}

SearchItems ==
    {SearchItem(name, code) :
        name \in {"poll"}, code \in {Text(text) : text \in Codes}}
        \cup {SearchItem("print", NullField), SearchItem("main", AbsentField)}

MaxSearchItems == 2

SearchItemLists == UNION {[1..n -> SearchItems] : n \in 0..MaxSearchItems}

\* One call of search_in_code.
SearchInCode(items, query, code_field, case_sensitive, include_code) ==
    /\ util_call = NoUtilCall
    /\ util_call' = [fn |-> "search_in_code", items |-> items,
                     query |-> query, code_field |-> code_field,
                     case_sensitive |-> case_sensitive,
                     include_code |-> include_code,
                     result |-> search_in_code(items, query, code_field,
                                               case_sensitive, include_code)]
    /\ UNCHANGED outsideUtils

(***************************************************************************)
(* The log stream: GimsClient.stream_sse, cut at its await points.         *)
(* The clock counts whole ticks since start_time; a read times out only    *)
(* after at least one tick without a line.                                 *)
(***************************************************************************)

\* The overall timeouts a caller may pass, in ticks.
MaxTimeout == 2

\* The clock is followed this far.
MaxClock == 3

\* At most this many data events are followed.
MaxEvents == 2

\* At most this many connection attempts are followed.
MaxConnections == 3

Timeouts == 1..MaxTimeout

\* The statuses the stream endpoint may answer a connection with.
StreamStatuses == {200, 401, 404, 502}

NoStream ==
    [pc |-> "idle", timeout |-> 0, now |-> 0, auth |-> "none",
     connections |-> <<>>, refreshSent |-> <<>>, events |-> 0,
     last |-> "none", result |-> Pending]

StreamQuiet == stream = NoStream

\* time.monotonic() - start_time >= timeout
DeadlinePassed(s) == s.now >= s.timeout

\* The generator finishes: `return` of lines 667, 674, 684, 688, 696.
StreamReturn(s, why) ==
    [s EXCEPT !.pc = "done", !.last = why,
              !.result = Return([type |-> "StopAsyncIteration"])]

\* An exception leaves the generator.
StreamRaise(s, why, exception) ==
    [s EXCEPT !.pc = "done", !.last = why, !.result = exception]

\* What the stored tokens, the context and the calls aside, a refresh inside
\* the stream leaves alone.
outsideStreamRefresh ==
    <<client, calls, close_call, classifyVars, governorVars, toolVars, importVars,
      serializerVars, errorVars, utilVars, logVars>>

\* stream_sse is called: the headers take the stored access token and the
\* clock starts (lines 638-646).
StreamSse(timeout) ==
    /\ stream.pc = "idle"
    /\ stream' = [NoStream EXCEPT !.pc = "loop", !.timeout = timeout,
                                  !.auth = access_token]
    /\ UNCHANGED outsideStream

\* time.monotonic() advances while the stream is open.
StreamClock ==
    /\ stream.pc \notin {"idle", "done"}
    /\ stream.now < MaxClock
    /\ stream' = [stream EXCEPT !.now = @ + 1]
    /\ UNCHANGED outsideStream

\* stream_sse without the deadline check at the top of its loop.
StreamConnectWithoutDeadline ==
    /\ stream.pc = "loop"
    /\ Len(stream.connections) < MaxConnections
    /\ stream' = [stream EXCEPT !.pc = "connecting", !.last = "connecting",
                                !.connections = Append(@, stream.auth)]
    /\ UNCHANGED outsideStream

\* The top of the loop (lines 671-681): the deadline check, then a new
\* connection with the current headers.
StreamConnect ==
    /\ stream.pc = "loop"
    /\ DeadlinePassed(stream) \/ Len(stream.connections) < MaxConnections
    /\ stream' = IF DeadlinePassed(stream)
                 THEN StreamReturn(stream, "deadline")
                 ELSE [stream EXCEPT !.pc = "connecting", !.last = "connecting",
                                     !.connections = Append(@, stream.auth)]
    /\ UNCHANGED outsideStream

\* The stream endpoint answers the connection (lines 650-662).  A 401 goes
\* on to the refresh POST of _refresh_access_token.
StreamConnected(status) ==
    /\ stream.pc = "connecting"
    /\ stream' =
          IF status = 401
          THEN [stream EXCEPT !.pc = "refresh", !.last = "401",
                              !.refreshSent =
                                  Append(@, RefreshWire(refresh_token))]
          ELSE IF status # 200
          THEN StreamRaise(stream, "status",
                   Raise("GimsApiError", status,
                         "Failed to connect to log stream"))
          ELSE [stream EXCEPT !.pc = "streaming", !.last = "connected"]
    /\ UNCHANGED outsideStream

\* The refresh endpoint answers (line 653, in _refresh_access_token lines
\* 99-129).  A failure leaves stream_sse; a success stores the tokens (lines
\* 120-123) and stays suspended in the close of the httpx client the refresh
\* was made with, the stream's headers not yet renewed.
StreamRefreshResponse(response) ==
    /\ stream.pc = "refresh"
    /\ access_token' = RefreshedAccessToken(response, access_token)
    /\ refresh_token' = RefreshedRefreshToken(response, refresh_token)
    /\ stream' =
          IF RefreshFailure(response) # Pending
          THEN StreamRaise(stream, "refresh_failed", RefreshFailure(response))
          ELSE [stream EXCEPT !.pc = "refreshed", !.last = "token_stored"]
    /\ UNCHANGED outsideStreamRefresh

\* _refresh_access_token has returned (line 654): the headers take the
\* access token stored by now, whichever refresh stored it, and the
\* RequestError of line 655 is answered by `continue` (line 693).
StreamHeadersRenewed ==
    /\ stream.pc = "refreshed"
    /\ stream' = [stream EXCEPT !.pc = "loop", !.last = "token_refreshed",
                                !.auth = access_token]
    /\ UNCHANGED outsideStream

\* The refresh POST raises httpx.RequestError (lines 92-97): the
\* GimsApiError is no httpx error and leaves stream_sse.
StreamRefreshRequestError ==
    /\ stream.pc = "refresh"
    /\ stream' = StreamRaise(stream, "refresh_failed",
                     Raise("GimsApiError", 0, "token_refresh_failed"))
    /\ UNCHANGED outsideStream

\* A line arrives (lines 664-669): the deadline check, then the event of a
\* data line is handed to the consumer; any other line is dropped.
StreamLine(is_data) ==
    /\ stream.pc = "streaming"
    /\ DeadlinePassed(stream) \/ ~is_data \/ stream.events < MaxEvents
    /\ stream' =
          IF DeadlinePassed(stream)
          THEN StreamReturn(stream, "deadline")
          ELSE IF is_data
          THEN [stream EXCEPT !.events = @ + 1, !.last = "event"]
          ELSE [stream EXCEPT !.last = "keepalive"]
    /\ UNCHANGED outsideStream

\* The server ends the stream: aiter_lines is exhausted, the inner generator
\* finishes and line 684 returns.
StreamEnd ==
    /\ stream.pc = "streaming"
    /\ stream' = StreamReturn(stream, "stream_end")
    /\ UNCHANGED outsideStream

\* httpx.ReadTimeout while waiting for the response or for a line (lines
\* 685-690): a tick has passed without data.
StreamReadTimeout ==
    /\ stream.pc \in {"connecting", "streaming"}
    /\ stream.now < MaxClock
    /\ LET timed_out == [stream EXCEPT !.now = @ + 1]
       IN  stream' = IF DeadlinePassed(timed_out)
                     THEN StreamReturn(timed_out, "read_timeout")
                     ELSE [timed_out EXCEPT !.pc = "loop",
                                            !.last = "read_timeout"]
    /\ UNCHANGED outsideStream

\* Any other httpx.RequestError while connecting or reading (lines 691-697).
StreamRequestError ==
    /\ stream.pc \in {"connecting", "streaming"}
    /\ stream' =
          IF DeadlinePassed(stream)
          THEN StreamReturn(stream, "request_error")
          ELSE StreamRaise(stream, "request_error",
                   Raise("GimsApiError", 0, "SSE connection error"))
    /\ UNCHANGED outsideStream

(***************************************************************************)
(* The log tool: tools/logs.py, _get_script_execution_log.  The clock      *)
(* counts seconds; the tool and the stream it reads share it.              *)
(***************************************************************************)

\* logs.py line 17
DEFAULT_END_MARKERS == <<"END SCRIPT">>

\* logs.py line 179, in seconds
retry_delay == 2

\* The end of the match of LOG_LINE_PATTERN at the start of the line, or -1:
\* "dddd-dd-dd dd:dd:dd,ddd [" and one character or more other than "]",
\* then "] ".
LogLinePatternEnd(line) ==
    LET shape == "dddd-dd-dd dd:dd:dd,ddd ["
        closes == {i \in Len(shape)..(Len(line) - 1) : CharAt(line, i) = "]"}
    IN  IF /\ Len(line) >= Len(shape)
           /\ \A i \in 0..(Len(shape) - 1) :
                 IF CharAt(shape, i) = "d"
                 THEN IndexIn(Digits, CharAt(line, i)) # -1
                 ELSE CharAt(line, i) = CharAt(shape, i)
           /\ closes # {}
           /\ Least(closes) > Len(shape)
           /\ Least(closes) + 1 < Len(line)
           /\ CharAt(line, Least(closes) + 1) = " "
        THEN Least(closes) + 2
        ELSE -1

\* logs._parse_log_line
_parse_log_line(line, keep_timestamp) ==
    IF keep_timestamp THEN line
    ELSE IF LogLinePatternEnd(line) # -1
    THEN Slice(line, LogLinePatternEnd(line), Len(line))
    ELSE line

\* not line.strip()
IsBlank(line) ==
    \A i \in 0..(Len(line) - 1) : CharAt(line, i) \in Whitespace

\* logs._check_end_markers
_check_end_markers(text, markers) ==
    \E i \in DOMAIN markers : Contains(text, markers[i])

\* logs._apply_filter, for a pattern that re.compile accepts or rejects with
\* re.error.
_apply_filter(text, pattern) ==
    IF pattern = None THEN TRUE
    ELSE IF Compile(pattern[1]).kind = "pattern"
    THEN NextStart(Compile(pattern[1]).atoms, text, 0, FALSE, TRUE, 0,
                   Len(text)) # -1
    ELSE Contains(text, pattern[1])

\* re.compile raises something other than re.error: it leaves _apply_filter.
FilterRaises(pattern) ==
    /\ pattern # None
    /\ Compile(pattern[1]).kind \notin {"pattern", "re.error"}

\* The size of a line without the newline that joins it to the next.
LineSizeWithoutNewline(parsed_line) == Len(parsed_line)

\* len(parsed_line.encode("utf-8")) + 1, lines 222 and 236; the lines of the
\* model are ASCII.
LineSize(parsed_line) == Len(parsed_line) + 1

\* text.splitlines() of an ASCII text: a line ends at \n, \r, \r\n (one
\* boundary), \x0b, \f, \x1c, \x1d or \x1e, and a boundary at the very end
\* opens no further line.
RECURSIVE SplitLines(_)
SplitLines(text) ==
    LET boundaries ==
            {"\n", "\r", "\f",
             "", "", "", ""}
        breaks == {i \in 0..(Len(text) - 1) : CharAt(text, i) \in boundaries}
        after ==
            IF CharAt(text, Least(breaks)) = "\r"
                   /\ CharAt(text, Least(breaks) + 1) = "\n"
            THEN Least(breaks) + 2
            ELSE Least(breaks) + 1
    IN  IF text = "" THEN <<>>
        ELSE IF breaks = {} THEN <<text>>
        ELSE <<Slice(text, 0, Least(breaks))>>
                 \o SplitLines(Slice(text, after, Len(text)))

\* A log line with the prefix of LOG_LINE_PATTERN.
StepLine == "2026-01-11 04:23:33,350 [INFO] step +1"

\* A line that fills all but three bytes of one KB.
LongLine == Filler(1020)

ContentOpen == "{\"content\": \""

ContentClose == "\"}"

\* The data of the events the stream hands over: JSON objects whose content
\* is one line, a long line, or several lines with a blank one, an end
\* marker and a line after it; a text that is no JSON; an object without
\* content; a JSON list.
EventData ==
    {ContentOpen \o StepLine \o ContentClose,
     ContentOpen \o LongLine \o ContentClose,
     ContentOpen \o "step\\n \\nEND SCRIPT\\nlate" \o ContentClose,
     "END SCRIPT", "{\"id\": 1}", "[1]"}

\* A JSON string body with its two-character escapes replaced: \n, \t, \r,
\* \f and \b by the control character, \", \\ and \/ by the character.
RECURSIVE JsonUnescape(_)
JsonUnescape(text) ==
    LET slashes == {i \in 0..(Len(text) - 2) : CharAt(text, i) = "\\"}
        escaped == CharAt(text, Least(slashes) + 1)
    IN  IF slashes = {} THEN text
        ELSE Slice(text, 0, Least(slashes))
                 \o (IF escaped = "n" THEN "\n"
                     ELSE IF escaped = "t" THEN "\t"
                     ELSE IF escaped = "r" THEN "\r"
                     ELSE IF escaped = "f" THEN "\f"
                     ELSE IF escaped = "b" THEN ""
                     ELSE escaped)
                 \o JsonUnescape(Slice(text, Least(slashes) + 2, Len(text)))

\* json.loads(data) of line 203 for the texts of EventData.
EventJson(data) ==
    IF /\ StartsWithAt(data, ContentOpen, 0)
       /\ StartsWithAt(data, ContentClose, Len(data) - Len(ContentClose))
    THEN [type |-> "object", keys |-> {"content"},
          content |-> JsonUnescape(Slice(data, Len(ContentOpen),
                                         Len(data) - Len(ContentClose)))]
    ELSE IF IsJson(data) THEN JsonLoads(data)
    ELSE [type |-> "invalid"]

\* Lines 202-207: the content of an event, or None where parsed.get fails
\* (AttributeError, which line 206 does not catch).
EventContent(data) ==
    IF EventJson(data).type = "invalid" THEN Some(data)
    ELSE IF EventJson(data).type # "object" THEN None
    ELSE IF "content" \in EventJson(data).keys
    THEN Some(EventJson(data).content)
    ELSE Some("")

\* EventContent on every text of a set, evaluated once.
RECURSIVE EventContentsOf(_)
EventContentsOf(texts) ==
    IF texts = {} THEN <<>>
    ELSE LET data == CHOOSE d \in texts : TRUE
         IN  (data :> EventContent(data)) @@ EventContentsOf(texts \ {data})

EventContents == EventContentsOf(EventData)

\* content.splitlines() of every event that has lines, evaluated once.
RECURSIVE EventLinesOf(_)
EventLinesOf(texts) ==
    IF texts = {} THEN <<>>
    ELSE LET data == CHOOSE d \in texts : TRUE
         IN  (data :> SplitLines(EventContents[data][1]))
                 @@ EventLinesOf(texts \ {data})

EventLines ==
    EventLinesOf({d \in EventData : EventContents[d] \notin {None, Some("")}})

\* The arguments of a call: timeout, end_markers, filter_pattern and
\* keep_timestamp.  The filters: none, a regular expression, and a text
\* that re.compile rejects.
LogArguments ==
    {[timeout |-> None, end_markers |-> DEFAULT_END_MARKERS,
      filter_pattern |-> None, keep_timestamp |-> FALSE],
     [timeout |-> Some(MaxClock), end_markers |-> DEFAULT_END_MARKERS,
      filter_pattern |-> Some("st.p"), keep_timestamp |-> TRUE],
     [timeout |-> Some(1), end_markers |-> DEFAULT_END_MARKERS,
      filter_pattern |-> Some("+1"), keep_timestamp |-> TRUE],
     [timeout |-> Some(-1), end_markers |-> DEFAULT_END_MARKERS,
      filter_pattern |-> None, keep_timestamp |-> FALSE]}

\* GET /scripts/script_log_url/{script_id}/
LogUrlRequest ==
    [method |-> "GET", url |-> "/scripts/script_log_url/7/", json |-> "None",
     params |-> "None"]

\* The answers to it: the URL, an object without one, no such script, and an
\* expired token.
LogUrlResponses ==
    [status : {200}, ctype : {"application/json"},
     body : {"{\"url\": [\"/logs/7/stream\"]}", "{\"id\": 1}"}]
        \cup [status : {401, 404}, ctype : {"application/json"},
              body : {"{\"id\": 1}"}]

\* The answers of the refresh endpoint during a run of the tool: new tokens,
\* the refresh token rejected, a gateway error, and a JSON list.
LogRefreshResponses ==
    {r \in RefreshResponses :
        \/ r.status # 200
        \/ r.body \in {"{\"access\": \"access1\", \"refresh\": \"refresh1\"}",
                       "[]"}}

\* The limits the server was configured with, in KB: nothing fits, and one
\* long line fits.
LogSizeKbs == {0, 1}

\* The request() call that carries get_script_log_url: the first of Calls.
LogCaller == CHOOSE c \in Calls : \A d \in Calls : c <= d

NoLogCall ==
    [pc |-> "idle", arguments |-> CHOOSE a \in LogArguments : TRUE,
     timeout |-> 0, max_size |-> 0, log_url |-> "", now |-> 0,
     started_at |-> 0,
     iterations |-> 0, wake |-> 0, received_any_data |-> FALSE,
     consumed |-> 0, lines |-> <<>>, buffer |-> <<>>, buffer_size |-> 0,
     end_marker_found |-> FALSE, timeout_reached |-> FALSE,
     size_limit_reached |-> FALSE, connection_error |-> None,
     ended |-> <<>>, result |-> Pending]

LogQuiet == log_call = NoLogCall

\* What a step of the log tool leaves alone, the stream aside.
outsideLog ==
    <<transportVars, classifyVars, governorVars, toolVars, importVars,
      serializerVars, errorVars, utilVars>>

\* time.monotonic() - start_time: the tool's own count while it sleeps, the
\* stream's while the tool reads from it.
Elapsed(l, s) ==
    IF l.pc \in {"streaming", "lines"} THEN l.started_at + s.now ELSE l.now

\* int(timeout / retry_delay) + 1: int() drops the fraction, towards zero for
\* a negative timeout too.
max_retries(timeout) ==
    (IF timeout >= 0 THEN timeout \div retry_delay
     ELSE -((-timeout) \div retry_delay)) + 1

\* GimsClient.get_script_log_url on the outcome of its request (lines
\* 611-615).
get_script_log_url(result) ==
    IF result.kind # "return" THEN result
    ELSE IF result.value.type # "object"
    THEN Raise("AttributeError", 0, "get")
    ELSE IF "url" \notin result.value.keys \/ result.value.url = <<>>
    THEN Raise("GimsApiError", 500, "Invalid response")
    ELSE Return(result.value.url[1])

\* Lines 165-168.
WithTail(log_url) ==
    IF Contains(log_url, "?") THEN log_url \o "&tail=0"
    ELSE log_url \o "?tail=0"

\* Lines 294-311: the warnings in front of the collected lines.
LogWarnings(l) ==
    (IF l.timeout_reached /\ ~l.end_marker_found
     THEN <<"WARNING: Timeout (" \o ToString(l.timeout)
                \o "s) reached without end marker">>
     ELSE <<>>)
    \o (IF l.size_limit_reached
        THEN <<"WARNING: Size limit (" \o ToString(l.max_size \div 1024)
                   \o "KB) reached">>
        ELSE <<>>)
    \o (IF l.connection_error # None
        THEN <<"WARNING: " \o l.connection_error[1]>> ELSE <<>>)

\* The tool returns its text.
LogReturn(l) ==
    [l EXCEPT !.pc = "done", !.lines = <<>>,
              !.result = Return([type |-> "text",
                                 warnings |-> LogWarnings(l),
                                 lines |-> l.buffer])]

\* The top of one pass of `for _ in range(max_retries)` at l.now seconds
\* (lines 182-193): the passes are used up, the timeout has elapsed, or
\* stream_sse is called for the remaining time.
LogPass(l) ==
    IF l.iterations >= max_retries(l.timeout) THEN LogReturn(l)
    ELSE IF l.now >= l.timeout
    THEN LogReturn([l EXCEPT !.timeout_reached = TRUE])
    ELSE [l EXCEPT !.pc = "streaming", !.iterations = @ + 1,
                   !.started_at = l.now, !.received_any_data = FALSE,
                   !.consumed = 0]

\* The stream after a step of the tool that took it to l: a new stream_sse
\* call for the remaining time where a pass began.
StreamOf(l) ==
    IF l.pc = "streaming"
    THEN [NoStream EXCEPT !.pc = "loop",
                          !.timeout = l.timeout - l.started_at,
                          !.auth = access_token]
    ELSE stream

\* The closed generator: response and httpx client of the stream are closed.
StreamClosed == [stream EXCEPT !.pc = "done", !.last = "closed"]

\* The tool left `async for` by break or by an exception of its own and
\* has returned; the generator it dropped is still suspended at its yield
\* (client.py line 669), response and httpx client open.  The task that
\* asyncio's asyncgen finalizer schedules throws GeneratorExit into it and
\* is then suspended in the close of the stream's httpx client.
StreamFinalize ==
    /\ log_call.pc = "done"
    /\ stream.pc = "streaming"
    /\ stream' = [stream EXCEPT !.pc = "closing", !.last = "finalizer"]
    /\ UNCHANGED outsideStream

\* The close of the httpx client is over: the generator is closed.
StreamFinalized ==
    /\ stream.pc = "closing"
    /\ stream' = StreamClosed
    /\ UNCHANGED outsideStream

\* `await asyncio.sleep(seconds)` at l.now, to go on at pc.
LogSleep(l, pc, seconds) == [l EXCEPT !.pc = pc, !.wake = l.now + seconds]

\* Lines 253-276 and 280-286: wait retry_delay and go round again while more
\* than that remains, else what each place does instead.
LogRetryOr(l, otherwise) ==
    IF l.timeout - l.now > retry_delay
    THEN LogSleep(l, "sleep", retry_delay)
    ELSE otherwise

\* The tool is called (lines 145-156).  Line 146 evaluates the default
\* of the timeout, client.config.log_stream_timeout, whether or not the
\* arguments hold a timeout: on a config without the attribute the
\* AttributeError leaves the tool before any request.
GetScriptExecutionLog(arguments, config) ==
    /\ log_call.pc = "idle"
    /\ stream.pc = "idle"
    /\ calls[LogCaller].pc = "idle"
    /\ log_call' =
          IF config.log_stream_timeout = None
          THEN [NoLogCall EXCEPT !.pc = "done", !.arguments = arguments,
                   !.result = Raise("AttributeError", 0,
                                    "'Config' object has no attribute 'log_stream_timeout'")]
          ELSE [NoLogCall EXCEPT !.pc = "url", !.arguments = arguments,
                   !.timeout = IF arguments.timeout = None
                               THEN config.log_stream_timeout[1]
                               ELSE arguments.timeout[1],
                   !.max_size = max_response_size]
    /\ UNCHANGED <<stream, outsideLog>>

\* get_script_log_url has returned or raised (lines 155-160); with the URL
\* the clock starts and the first pass begins (lines 165-193).
LogUrl ==
    /\ log_call.pc = "url"
    /\ calls[LogCaller].pc = "done"
    /\ LET outcome == get_script_log_url(calls[LogCaller].result)
       IN  log_call' =
             IF outcome.kind = "return"
             THEN LogPass([log_call EXCEPT !.log_url = WithTail(outcome.value)])
             ELSE IF /\ outcome.kind \in {"GimsApiError", "GimsAuthError"}
                     /\ outcome.status = 404
             THEN [log_call EXCEPT !.pc = "done",
                      !.result = Return([type |-> "text", warnings |-> <<>>,
                                         lines |-> <<"Error 404: Script with ID 7 not found">>])]
             ELSE [log_call EXCEPT !.pc = "done", !.result = outcome]
    /\ stream' = StreamOf(log_call')
    /\ UNCHANGED outsideLog

\* One event arrives from the stream (lines 193-210).
LogData(data) ==
    /\ log_call.pc = "streaming"
    /\ stream.events > log_call.consumed
    /\ LET l == [log_call EXCEPT !.received_any_data = TRUE,
                                 !.consumed = @ + 1]
           over == [l EXCEPT !.now = Elapsed(log_call, stream)]
       IN  log_call' =
             IF over.now >= l.timeout
             THEN LogReturn([over EXCEPT !.timeout_reached = TRUE,
                                         !.ended = Append(@, "break")])
             ELSE IF EventContents[data] = None
             THEN LogReturn([over EXCEPT
                     !.connection_error = Some("Unexpected error"),
                     !.ended = Append(@, "AttributeError")])
             ELSE IF EventContents[data][1] = "" THEN l
             ELSE [l EXCEPT !.pc = "lines", !.lines = EventLines[data]]
    /\ UNCHANGED <<stream, outsideLog>>

\* The next line is taken, or the event has no more lines.
LogNextLine(l) ==
    IF Tail(l.lines) = <<>>
    THEN [l EXCEPT !.pc = "streaming", !.lines = <<>>]
    ELSE [l EXCEPT !.lines = Tail(@)]

\* The line appended to the buffer (lines 225-226 and 242-243).
LogAppend(l, parsed_line) ==
    [l EXCEPT !.buffer = Append(@, parsed_line),
              !.buffer_size = @ + LineSize(parsed_line)]

\* What lines 214-234 find out about a line under the arguments of a call:
\* whether it is blank, whether it holds an end marker, what is left of it
\* without its prefix, and whether that passes the filter.
LineFacts(arguments, line) ==
    [blank |-> IsBlank(line),
     marker |-> _check_end_markers(line, arguments.end_markers),
     parsed_line |-> _parse_log_line(line, arguments.keep_timestamp),
     raises |-> FilterRaises(arguments.filter_pattern),
     passes |-> /\ ~FilterRaises(arguments.filter_pattern)
                /\ _apply_filter(_parse_log_line(line,
                                                 arguments.keep_timestamp),
                                 arguments.filter_pattern)]

\* The lines the events of EventData carry.
LogLines ==
    UNION {{EventLines[d][i] : i \in DOMAIN EventLines[d]} :
              d \in DOMAIN EventLines}

\* LineFacts for every pair of a set, evaluated once.
RECURSIVE LineFactsOf(_)
LineFactsOf(pairs) ==
    IF pairs = {} THEN <<>>
    ELSE LET pair == CHOOSE p \in pairs : TRUE
         IN  (pair :> LineFacts(pair[1], pair[2]))
                 @@ LineFactsOf(pairs \ {pair})

LineFactsTable == LineFactsOf(LogArguments \X LogLines)

\* The body of `for line in content.splitlines()` for the first of l.lines
\* at `now` seconds (lines 213-246, and the breaks of 245-250 behind it).
LogTakeLine(l, now) ==
    LET over == [l EXCEPT !.now = now]
        facts == LineFactsTable[<<l.arguments, Head(l.lines)>>]
        fits == l.buffer_size + LineSize(facts.parsed_line) <= l.max_size
    IN  IF facts.blank THEN LogNextLine(l)
        ELSE IF facts.raises
        THEN LogReturn([over EXCEPT
                !.end_marker_found = facts.marker,
                !.connection_error = Some("Unexpected error"),
                !.ended = Append(@, "OverflowError")])
        ELSE IF facts.marker
        THEN LogReturn([(IF facts.passes /\ fits
                         THEN LogAppend(over, facts.parsed_line) ELSE over)
                        EXCEPT !.end_marker_found = TRUE,
                               !.ended = Append(@, "break")])
        ELSE IF ~facts.passes THEN LogNextLine(l)
        ELSE IF ~fits
        THEN LogReturn([over EXCEPT !.size_limit_reached = TRUE,
                                    !.ended = Append(@, "break")])
        ELSE LogNextLine(LogAppend(l, facts.parsed_line))

\* One line of the content is taken.
LogLine ==
    /\ log_call.pc = "lines"
    /\ log_call' = LogTakeLine(log_call, Elapsed(log_call, stream))
    /\ UNCHANGED <<stream, outsideLog>>

\* stream_sse is over: it returned (lines 248-276) or raised (lines
\* 278-292).
LogStreamOver ==
    /\ log_call.pc = "streaming"
    /\ stream.pc = "done"
    /\ stream.events = log_call.consumed
    /\ LET l == [log_call EXCEPT !.now = Elapsed(log_call, stream),
                                 !.ended = Append(@, stream.result.kind)]
           timed_out == LogReturn([l EXCEPT !.timeout_reached = TRUE])
       IN  log_call' =
             IF stream.result.kind = "return"
             THEN IF ~l.received_any_data
                  THEN LogRetryOr(l,
                          IF l.timeout - l.now > 0
                          THEN LogSleep(l, "last_sleep",
                                        l.timeout - l.now)
                          ELSE timed_out)
                  ELSE IF l.buffer # <<>> THEN LogReturn(l)
                  ELSE LogRetryOr(l, timed_out)
             ELSE IF stream.result.kind \in {"GimsApiError", "GimsAuthError"}
             THEN LET failed ==
                        [l EXCEPT !.connection_error =
                            Some("SSE connection error: "
                                     \o stream.result.message)]
                  IN  LogRetryOr(failed, LogReturn(failed))
             ELSE LogReturn([l EXCEPT
                     !.connection_error = Some("Unexpected error")])
    /\ UNCHANGED <<stream, outsideLog>>

\* time.monotonic() advances while the tool sleeps.
LogClock ==
    /\ log_call.pc \in {"sleep", "last_sleep"}
    /\ log_call.now < log_call.wake
    /\ log_call' = [log_call EXCEPT !.now = @ + 1]
    /\ UNCHANGED <<stream, outsideLog>>

\* asyncio.sleep returns: the next pass after retry_delay (lines 256, 272,
\* 284-286), the end after the last wait (lines 260-263).
LogWake ==
    /\ log_call.pc \in {"sleep", "last_sleep"}
    /\ log_call.now >= log_call.wake
    /\ log_call' =
          IF log_call.pc = "sleep"
          THEN LogPass([log_call EXCEPT !.connection_error = None])
          ELSE LogReturn([log_call EXCEPT !.timeout_reached = TRUE])
    /\ stream' = StreamOf(log_call')
    /\ UNCHANGED outsideLog

(***************************************************************************)
(* Properties of the transport core                                        *)
(***************************************************************************)

\* The wire request w is the caller's request req: same method, path, body
\* and query.
SameRequest(w, req) ==
    /\ w.method = req.method
    /\ w.url = req.url
    /\ w.json = req.json
    /\ w.params = req.params

\* The first response was a 401 and the refresh endpoint answered 200 with a
\* JSON object holding an access token.
RefreshAnsweredWithAccess(call) ==
    /\ Len(call.got) >= 1
    /\ call.got[1].status = 401
    /\ Len(call.refreshGot) = 1
    /\ call.refreshGot[1].status = 200
    /\ IsJson(call.refreshGot[1].body)
    /\ JsonLoads(call.refreshGot[1].body).type = "object"
    /\ "access" \in JsonLoads(call.refreshGot[1].body).keys

\* C1: a finished request() call whose first response was 401 and whose
\* refresh was answered 200 with an access token has sent the original
\* request (same method, path, body, query) exactly twice, once before and
\* once after the refresh, and its result is the classification of the second
\* response: a 200 JSON body is returned to the caller as the parsed value.
C1_RetryOnceAfterRefresh ==
    \A c \in Calls :
        LET call == calls[c] IN
        (call.pc = "done" /\ RefreshAnsweredWithAccess(call)) =>
            /\ Len(call.sent) = 2
            /\ SameRequest(call.sent[1], call.req)
            /\ SameRequest(call.sent[2], call.req)
            /\ Len(call.refreshSent) = 1
            /\ Len(call.got) = 2 => call.result = _handle_response(call.got[2])
            /\ ( /\ Len(call.got) = 2
                 /\ call.got[2].status = 200
                 /\ call.got[2].ctype = "application/json"
                 /\ call.got[2].body = "{\"id\": 1}" )
                  => call.result = Return([type |-> "object", keys |-> {"id"}, id |-> 1])
            /\ Len(call.got) = 1 => call.result.kind = "RequestError"

\* C1 happens: 401, refresh 200 with access, then a 200 JSON returned.
C1_Witness ==
    \E c \in Calls :
        /\ calls[c].pc = "done"
        /\ RefreshAnsweredWithAccess(calls[c])
        /\ Len(calls[c].got) = 2
        /\ calls[c].got[2].status = 200
        /\ calls[c].got[2].ctype = "application/json"
        /\ calls[c].result.kind = "return"

\* C2: when the first response is 401 and the refresh endpoint answers 401,
\* the call has failed with GimsAuthError and the original request was not
\* sent again: one primary request and one refresh request in total.
C2_RefreshRejectedIsAuthError ==
    \A c \in Calls :
        LET call == calls[c] IN
        (Len(call.refreshGot) >= 1 /\ call.refreshGot[1].status = 401) =>
            /\ call.pc = "done"
            /\ call.result.kind = "GimsAuthError"
            /\ call.result.status = 401
            /\ Len(call.got) = 1
            /\ call.got[1].status = 401
            /\ Len(call.sent) = 1
            /\ Len(call.refreshSent) = 1

\* C2 happens: a call whose refresh was answered 401 has finished.
C2_Witness ==
    \E c \in Calls :
        /\ calls[c].pc = "done"
        /\ Len(calls[c].refreshGot) = 1
        /\ calls[c].refreshGot[1].status = 401
        /\ calls[c].result.kind = "GimsAuthError"

\* C3: whatever the server answers, one request() call sends the primary
\* request at most twice and calls the refresh endpoint at most once; when the
\* retried request is answered 401 too, the call has failed with a plain
\* GimsApiError of status 401 (not GimsAuthError) after exactly two attempts
\* and one refresh.
C3_AtMostOneRefreshAndOneRetry ==
    \A c \in Calls :
        LET call == calls[c] IN
        /\ Len(call.sent) <= 2
        /\ Len(call.refreshSent) <= 1
        /\ Len(call.refreshGot) <= 1
        /\ (Len(call.got) = 2 /\ call.got[2].status = 401) =>
              /\ call.pc = "done"
              /\ call.result = Raise("GimsApiError", 401, "Authentication failed")
              /\ Len(call.sent) = 2
              /\ Len(call.refreshSent) = 1

\* C3 happens: the retried request was answered 401 as well.
C3_Witness ==
    \E c \in Calls :
        /\ Len(calls[c].got) = 2
        /\ calls[c].got[1].status = 401
        /\ calls[c].got[2].status = 401
        /\ calls[c].pc = "done"

\* C10: _handle_response maps every response to exactly one outcome, decided
\* in this order: 401 -> 'Authentication failed'; 403 -> 'Permission denied';
\* 404 -> 'Not found'; any other status >= 400 -> 'API error'; 204 -> None;
\* any remaining response without a JSON content-type -> 'Invalid response
\* format'; a JSON content-type with an unparseable body -> 'Failed to parse
\* JSON response'; otherwise the parsed JSON value.  A value parsed from a
\* body is never returned for a response without a JSON content-type.
C10_ResponseClassification ==
    LET r == handled.response
        o == handled.outcome
    IN  o # Pending =>
            /\ r.status = 401 =>
                  o = Raise("GimsApiError", 401, "Authentication failed")
            /\ r.status = 403 =>
                  o = Raise("GimsApiError", 403, "Permission denied")
            /\ r.status = 404 =>
                  o = Raise("GimsApiError", 404, "Not found")
            /\ (r.status >= 400 /\ r.status \notin {401, 403, 404}) =>
                  o = Raise("GimsApiError", r.status, "API error")
            /\ r.status = 204 => o = Return(NoneValue)
            /\ (r.status < 400 /\ r.status # 204
                    /\ r.ctype \notin {"application/json",
                                      "application/json; charset=utf-8"}) =>
                  o = Raise("GimsApiError", r.status, "Invalid response format")
            /\ (r.status < 400 /\ r.status # 204
                    /\ r.ctype \in {"application/json",
                                   "application/json; charset=utf-8"}
                    /\ r.body \notin {"{\"id\": 1}", "[1]"}) =>
                  o = Raise("GimsApiError", r.status,
                            "Failed to parse JSON response")
            /\ (r.status < 400 /\ r.status # 204
                    /\ r.ctype \in {"application/json",
                                   "application/json; charset=utf-8"}
                    /\ r.body \in {"{\"id\": 1}", "[1]"}) =>
                  o = Return(JsonLoads(r.body))
            /\ (o.kind = "return" /\ o.value # NoneValue) =>
                  r.ctype \in {"application/json",
                              "application/json; charset=utf-8"}

\* C10 happens: a 2xx response with a non-JSON content-type and a JSON body
\* was classified.
C10_Witness ==
    /\ handled.outcome # Pending
    /\ handled.response.status = 200
    /\ handled.response.ctype = "text/html"
    /\ handled.response.body = "{\"id\": 1}"

\* A step in which call c's refresh succeeds: _refresh_access_token returns
\* normally for the response the refresh endpoint gave.
RefreshSucceeds(c) ==
    /\ calls[c].pc = "refresh"
    /\ calls'[c].pc = "recreate"
    /\ Len(calls'[c].refreshGot) = Len(calls[c].refreshGot) + 1

\* The response of the refresh endpoint in such a step.
RefreshAnswer(c) == calls'[c].refreshGot[Len(calls'[c].refreshGot)]

\* C12: after a successful refresh the stored access token equals the
\* 'access' value of the refresh response; the stored refresh token is
\* replaced by the response's 'refresh' value if and only if the response
\* contains one, and is otherwise left unchanged.
C12_RefreshStoresTokens ==
    [][\A c \in Calls :
          RefreshSucceeds(c) =>
              LET data == JsonLoads(RefreshAnswer(c).body) IN
              /\ access_token' = data.access
              /\ "refresh" \in data.keys => refresh_token' = data.refresh
              /\ "refresh" \notin data.keys => refresh_token' = refresh_token]_vars

\* C12 happens: one refresh was answered with a new pair and stored, and a
\* second one with an access token alone; both tokens are the new ones.
C12_Witness ==
    \E c, d \in Calls :
        /\ c # d
        /\ Len(calls[c].refreshGot) = 1 /\ Len(calls[d].refreshGot) = 1
        /\ calls[c].refreshGot[1].status = 200
        /\ calls[c].refreshGot[1].body
              = "{\"access\": \"access1\", \"refresh\": \"refresh1\"}"
        /\ calls[d].refreshGot[1].status = 200
        /\ calls[d].refreshGot[1].body = "{\"access\": \"access1\"}"
        /\ calls[c].pc = "done" /\ calls[d].pc = "recreate"
        /\ access_token = "access1"
        /\ refresh_token = "refresh1"

\* C25: the refresh-and-rebuild sequence of request() is not mutually
\* exclusive.  Every call whose first response was 401 has sent a refresh
\* request of its own, whatever the other calls in flight are doing, so two
\* calls answered 401 send two refresh requests (C25_Witness: both for the
\* same expired token); each call still sends at most one refresh request and
\* sends its request at most twice.
C25_EachCallRefreshesItself ==
    \A c \in Calls :
        LET call == calls[c] IN
        /\ (Len(call.got) >= 1 /\ call.got[1].status = 401) =>
              /\ Len(call.refreshSent) = 1
              /\ call.refreshSent[1].url = "/security/token/refresh/"
        /\ Len(call.refreshSent) <= 1
        /\ Len(call.sent) <= 2
        /\ Len(call.sent) = 2 => Len(call.refreshSent) = 1

\* C25 happens: two calls are both waiting for the answer to a refresh
\* request that carries the same refresh token.
C25_Witness ==
    \E c, d \in Calls :
        /\ c # d
        /\ calls[c].pc = "refresh" /\ calls[d].pc = "refresh"
        /\ calls[c].refreshSent = <<RefreshWire(ConfigRefreshToken)>>
        /\ calls[d].refreshSent = <<RefreshWire(ConfigRefreshToken)>>

\* Call c's refresh attempt fails in this step: its refresh POST raised, or
\* was answered by something _refresh_access_token raises for.
RefreshFails(c) ==
    /\ calls[c].pc = "refresh"
    /\ calls'[c].pc = "done"

\* C27: a refresh attempt that fails (network error, 401, another non-200
\* status, a 200 response without an 'access' field) leaves the stored access
\* token and the stored refresh token as they were before the attempt, leaves
\* the connection context in place, and ends the call with the error, without
\* a retry of the request.
C27_FailedRefreshChangesNothing ==
    [][\A c \in Calls :
          RefreshFails(c) =>
              /\ access_token' = access_token
              /\ refresh_token' = refresh_token
              /\ client' = client
              /\ calls'[c].result.kind
                    \in {"GimsAuthError", "GimsApiError", "TypeError"}
              /\ calls'[c].sent = calls[c].sent]_vars

\* The failure cases of C27 have happened: one call's refresh was answered 200
\* with a refresh token but no access token, another's was answered 401, and
\* the tokens and the open context are the ones from before.
C27_Witness ==
    \E c, d \in Calls :
        /\ c # d
        /\ calls[c].pc = "done" /\ calls[d].pc = "done"
        /\ Len(calls[c].refreshGot) = 1 /\ Len(calls[d].refreshGot) = 1
        /\ calls[c].refreshGot[1].status = 200
        /\ calls[c].refreshGot[1].body = "{\"refresh\": \"refresh1\"}"
        /\ calls[d].refreshGot[1].status = 401
        /\ access_token = ConfigAccessToken
        /\ refresh_token = ConfigRefreshToken
        /\ client = NewClient(ConfigAccessToken)

(***************************************************************************)
(* Properties of the response governor                                     *)
(***************************************************************************)

\* The limit in force for a check: the explicit argument, else the value the
\* last set_max_response_size installed (size_kb * 1024), else 10240.
EffectiveLimit(limit, last_kb) ==
    IF limit # None THEN limit[1]
    ELSE IF last_kb # None THEN last_kb[1] * 1024
    ELSE 10240

\* C8: check_response_size raises exactly when the UTF-8 byte length of the
\* serialized data exceeds the effective limit (the explicit argument, else
\* the process-wide value last set, else 10 KB); the error carries the
\* measured size and that limit, so a payload of exactly the limit passes
\* and one of limit + 1 bytes fails with size = limit + 1.
C8_RaisesIffOverEffectiveLimit ==
    checked.kind = "call" =>
        LET size == JsonDumpsSize(checked.data)
            eff == EffectiveLimit(checked.limit, checked.last_size_kb)
        IN  /\ (checked.outcome.kind = "ResponseTooLargeError") <=> (size > eff)
            /\ checked.outcome.kind = "ResponseTooLargeError" =>
                   /\ checked.outcome.size = size
                   /\ checked.outcome.limit = eff
            /\ checked.outcome.kind = "return" =>
                   /\ checked.outcome.json_str = checked.data
                   /\ checked.outcome.size = size
            /\ size = eff => checked.outcome.kind = "return"
            /\ size = eff + 1 =>
                   /\ checked.outcome.kind = "ResponseTooLargeError"
                   /\ checked.outcome.size = eff + 1

\* A check without explicit limit, after set_max_response_size(1), of a
\* payload with multi-byte and escaped characters of 1025 bytes: refused.
C8_Witness ==
    /\ checked.kind = "call"
    /\ checked.limit = None
    /\ checked.last_size_kb = Some(1)
    /\ checked.data.cyrillic = 1
    /\ checked.data.quotes = 1
    /\ JsonDumpsSize(checked.data) = 1025
    /\ checked.outcome.kind = "ResponseTooLargeError"
    /\ checked.outcome.size = 1025
    /\ checked.outcome.limit = 1024

(***************************************************************************)
(* Properties of the tool families                                         *)
(***************************************************************************)

\* C9: every tool of every family (scripts, datasource types, activator
\* types, references, logs, sync) hands back a response carrying remote data
\* only after that response passed through check_response_size, so no such
\* response is larger than the limit in force.
C9_EveryToolResponseGoverned ==
    (tool_call.kind = "call" /\ tool_call.response.remote_data) =>
        /\ tool_call.response.via = "check_response_size"
        /\ tool_call.response.size <= tool_call.limit

(***************************************************************************)
(* Properties of the import reconciler                                     *)
(***************************************************************************)

\* The requests of a log with one of the given operations.
Issued(ops) == {n \in 1..Len(requests) : requests[n].op \in ops}

StateChanging == {n \in 1..Len(requests) : requests[n].verb \in {"POST", "PATCH", "DELETE"}}

BaseCreates == Issued({"create_script", "create_datasource_type", "create_activator_type"})

BaseUpdates == Issued({"update_script", "update_datasource_type", "update_activator_type"})

\* The labels of the methods of a document set (folders with their
\* meta.yaml) whose code does not parse.
InvalidMethodLabels(args) ==
    IF args.kind # "datasource_type" THEN {}
    ELSE {l \in DOMAIN args.methods :
            /\ args.methods[l].has_meta
            /\ ~validate_python_syntax(DeserializedMethod(l, args.methods[l]).code)}

InvalidTopLevel(args) ==
    TopLevelCode(args) # None /\ ~validate_python_syntax(TopLevelCode(args)[1])

\* C4: for import_script, import_activator_type and import_datasource_type,
\* if the top-level code or the code of any method of the document set is
\* syntactically invalid, the import returns an error (naming the label of
\* an offending method when it is a method) and issues no POST, PATCH or
\* DELETE; no remote write is ever issued before every code body has been
\* validated.
C4_InvalidCodeBlocksEveryWrite ==
    import_call.pc # "idle" =>
        LET args == import_call.args[1]
            labels == InvalidMethodLabels(args)
        IN  /\ (InvalidTopLevel(args) \/ labels # {}) =>
                   /\ import_call.pc = "done"
                   /\ import_call.result.kind = "error"
                   /\ import_call.result.error = "syntax"
                   /\ InvalidTopLevel(args) => import_call.result.label = None
                   /\ ~InvalidTopLevel(args) =>
                          \E l \in labels : import_call.result.label = Some(l)
                   /\ StateChanging = {}
                   /\ remote \in RemoteListings
            /\ StateChanging # {} => ~InvalidTopLevel(args) /\ labels = {}

\* A datasource type with a valid method and an invalid one, validated in
\* that order: refused with the label of the invalid method, nothing sent.
C4_Witness ==
    /\ import_call.pc = "done"
    /\ import_call.args[1].kind = "datasource_type"
    /\ Len(import_call.methods) = 2
    /\ validate_python_syntax(import_call.methods[1].code)
    /\ ~validate_python_syntax(import_call.methods[2].code)
    /\ import_call.result = SyntaxErrorResult(Some(import_call.methods[2].label))
    /\ requests = <<>>

\* C5: for every import tool, when the remote listing contains an entity
\* whose name equals the target name and update_existing is false, the
\* import issues no create, update or delete request, the remote state is
\* unchanged, and the import returns a conflict outcome carrying the id of
\* the existing entity.
C5_ConflictWritesNothing ==
    (/\ import_call.listed # None
     /\ FirstNamed(import_call.listed[1], import_call.name) # None
     /\ ~import_call.args[1].update_existing) =>
        /\ import_call.pc = "done"
        /\ import_call.result =
               ConflictResult(FirstNamed(import_call.listed[1], import_call.name)[1])
        /\ StateChanging = {}
        /\ Len(requests) = 1
        /\ remote = import_call.listed[1]

\* An activator type named like the second and third listed entities, no
\* update_existing: conflict carrying the id of the first of them.
C5_Witness ==
    /\ import_call.pc = "done"
    /\ import_call.args[1].kind = "activator_type"
    /\ import_call.args[1].properties # <<>>
    /\ ~import_call.args[1].update_existing
    /\ import_call.name = "Alpha"
    /\ Len(remote) = 3
    /\ import_call.result = [kind |-> "conflict", existing_id |-> 2]
    /\ StateChanging = {}

\* Whether the import is past its validation.
PastValidation ==
    /\ import_call.pc # "idle"
    /\ ~(import_call.result.kind = "error" /\ import_call.result.error = "syntax")

Found == import_call.listed # None /\
    FirstNamed(import_call.listed[1], import_call.name) # None

Absent == import_call.listed # None /\
    FirstNamed(import_call.listed[1], import_call.name) = None

\* The three outcomes of a finished import.
OutcomeCreated ==
    /\ Absent
    /\ import_call.result.kind = "action"
    /\ import_call.result.action = "created"
    /\ Cardinality(BaseCreates) = 1
    /\ BaseUpdates = {}

OutcomeConflict ==
    /\ Found
    /\ ~import_call.args[1].update_existing
    /\ import_call.result.kind = "conflict"
    /\ StateChanging = {}

OutcomeUpdated ==
    /\ Found
    /\ import_call.args[1].update_existing
    /\ import_call.result.kind = "action"
    /\ import_call.result.action = "updated"
    /\ Cardinality(BaseUpdates) = 1
    /\ BaseCreates = {}
    /\ \A n \in BaseUpdates :
           requests[n].target =
               FirstNamed(import_call.listed[1], import_call.name)[1].id
    /\ import_call.result.id =
           FirstNamed(import_call.listed[1], import_call.name)[1].id

\* A create is never issued for a name found in the listing, an update never
\* for a name not found, and at most one of them is issued.
WritesFollowListing ==
    /\ Cardinality(BaseCreates) + Cardinality(BaseUpdates) <= 1
    /\ BaseCreates # {} => Absent
    /\ BaseUpdates # {} => Found /\ import_call.args[1].update_existing
    /\ \A n \in StateChanging : requests[n].verb # "DELETE"

\* C6 as stated: after validation passes, every import ends in exactly one
\* of three outcomes decided by (name in the listing, update_existing):
\* created with exactly one create, conflict with no write, updated with
\* exactly one update on the existing id.
C6_EveryImportEndsInOneOfThree ==
    (PastValidation /\ import_call.pc = "done") =>
        /\ OutcomeCreated \/ OutcomeConflict \/ OutcomeUpdated
        /\ WritesFollowListing

\* The listing, base write and reference listings of the import, and those
\* of them that raised GimsApiError.
FatalOps ==
    {"list_scripts", "list_datasource_types", "list_activator_types",
     "create_script", "create_datasource_type", "create_activator_type",
     "update_script", "update_datasource_type", "update_activator_type",
     "list_value_types", "list_property_sections"}

FatalFailures ==
    {n \in Issued(FatalOps) : ~requests[n].ok /\ ~requests[n].raised}

\* The requests that raised an exception other than GimsApiError.
OtherExceptions == {n \in 1..Len(requests) : requests[n].raised}

\* The import ended with "Response too large".
TooLarge ==
    /\ import_call.result.kind = "error"
    /\ import_call.result.error = "ResponseTooLargeError"

\* C6, amended: after validation passes, an import all of whose requests
\* are answered, whose listing, base write and reference listings return,
\* and whose response fits the response size limit ends in exactly one of
\* the three outcomes decided by (name in the listing, update_existing).
\* Otherwise it ends with an error text: with the GimsApiError of the
\* listing, the base write or a reference listing; with the exception of
\* any request that raised something other than GimsApiError; or, all
\* requests done, with "Response too large" when the serialized response
\* is longer than the limit - each of them possibly after the create or
\* update was issued, and the last after the writes the three-way decision
\* asks for.  In every case a create is never issued for a name found in
\* the listing, an update never for a name not found, and at most one
\* create or update is issued.
C6_OneOfThreeUnlessErrorEnds ==
    /\ PastValidation => WritesFollowListing
    /\ (PastValidation /\ import_call.pc = "done") =>
           /\ (FatalFailures = {} /\ OtherExceptions = {} /\ ~TooLarge) =>
                  /\ OutcomeCreated \/ OutcomeConflict \/ OutcomeUpdated
                  /\ ~(OutcomeCreated /\ OutcomeConflict)
                  /\ ~(OutcomeCreated /\ OutcomeUpdated)
                  /\ ~(OutcomeConflict /\ OutcomeUpdated)
           /\ FatalFailures # {} =>
                  /\ import_call.result = ApiErrorResult
                  /\ FatalFailures = {Len(requests)}
                  /\ OtherExceptions = {}
           /\ OtherExceptions # {} =>
                  /\ import_call.result = ExceptionResult
                  /\ OtherExceptions = {Len(requests)}
                  /\ FatalFailures = {}
           /\ TooLarge =>
                  /\ FatalFailures = {} /\ OtherExceptions = {}
                  /\ import_call.result.limit = max_response_size
                  /\ import_call.result.size > max_response_size
                  /\ \/ Absent /\ Cardinality(BaseCreates) = 1 /\ BaseUpdates = {}
                     \/ /\ Found /\ import_call.args[1].update_existing
                        /\ Cardinality(BaseUpdates) = 1 /\ BaseCreates = {}
                        /\ \A n \in BaseUpdates :
                              requests[n].target =
                                  FirstNamed(import_call.listed[1],
                                             import_call.name)[1].id
                     \/ /\ Found /\ ~import_call.args[1].update_existing
                        /\ StateChanging = {}

\* A datasource type with methods, named like the second and third listed
\* entities, update_existing set: one update, on the id of the first of
\* them, and the outcome `updated`.
C6_Witness ==
    /\ import_call.pc = "done"
    /\ import_call.args[1].kind = "datasource_type"
    /\ Len(import_call.methods) = 2
    /\ Len(remote) = 3
    /\ OutcomeUpdated
    /\ import_call.result.id = 2
    /\ import_call.result.methods.created = 2

\* The import reached its children: both reference listings succeeded.
ReachedChildren ==
    \E n \in 1..Len(requests) :
        requests[n].op = "list_property_sections" /\ requests[n].ok

\* The requests of one kind, in the order they were issued.
RequestsOf(ops) == SelectSeq(requests, LAMBDA r : r.op \in ops)

PropertyCreates ==
    RequestsOf({"create_datasource_type_property",
                "create_activator_type_property"})

MethodCreates == RequestsOf({"create_datasource_type_method"})

ParameterCreates == RequestsOf({"create_method_parameter"})

\* The properties of the document set whose value type or section has no id.
UnresolvedProperties ==
    LET properties == import_call.args[1].properties
    IN  {i \in DOMAIN properties :
            \/ properties[i].value_type \notin DOMAIN ValueTypeIds
            \/ properties[i].section \notin DOMAIN SectionIds}

\* The parameters (method, position) of the methods whose create succeeded,
\* and those among them whose value type has no id.
ParametersOfCreated ==
    UNION {{<<i, k>> : k \in DOMAIN import_call.methods[i].parameters} :
              i \in {i \in DOMAIN import_call.methods :
                        i <= Len(MethodCreates) /\ MethodCreates[i].ok}}

UnresolvedParameters ==
    {ik \in ParametersOfCreated :
        import_call.methods[ik[1]].parameters[ik[2]].value_type
            \notin DOMAIN ValueTypeIds}

\* The requests among them that raised GimsApiError.
Failures(created) ==
    Cardinality({n \in DOMAIN created : ~created[n].ok /\ ~created[n].raised})

\* The length of the report of the import as json.dumps(indent=2) lays it
\* out, counted from the counts and the error texts: a recorded error takes
\* its text, 6 bytes of indentation, two quotes and a comma and line break
\* (the last one the line break alone); the brackets of a list that is not
\* empty take 8 with their line break and indentation.  Around the action,
\* the id and the name stand 47 bytes of braces, keys and punctuation
\* ("script_id" is two longer than "type_id"), around the two counts and the
\* list of the properties 72, around those of the methods 80.
RECURSIVE TextBytes(_, _)
TextBytes(texts, i) ==
    IF i > Len(texts) THEN 0
    ELSE Len(texts[i]) + 10 + TextBytes(texts, i + 1)

ListBytes(texts) ==
    IF texts = <<>> THEN 2 ELSE 8 - 2 + TextBytes(texts, 1)

ReportBytes ==
    LET kind == import_call.args[1].kind
        props == import_call.properties_result
        meths == import_call.methods_result
        head == 47 + Len(import_call.action)
                    + Len(ToString(import_call.type_id)) + Len(import_call.name)
    IN  IF kind = "script" THEN head + 2
        ELSE head
                + 72 + Len(ToString(props.created))
                + Len(ToString(props.skipped)) + ListBytes(props.errors)
                + (IF kind = "datasource_type"
                   THEN 80 + Len(ToString(meths.created))
                           + Len(ToString(meths.parameters_created))
                           + ListBytes(meths.errors)
                   ELSE 0)

\* C19 as stated: once an import is past validation, the base create/update
\* and the reference listings, a property or parameter whose value-type or
\* section name cannot be resolved, or whose create request fails with a
\* GimsApiError, is skipped with one recorded error; every remaining
\* property and method and every parameter of a created method is still
\* attempted, and the import returns its created/updated outcome.  The
\* failures it speaks of are the only ones: no request has raised anything
\* but GimsApiError.
C19_ChildFailuresDoNotAbort ==
    (import_call.pc = "done" /\ ReachedChildren /\ OtherExceptions = {}) =>
        LET args == import_call.args[1]
            props == import_call.result.properties
            meths == import_call.result.methods
        IN  /\ import_call.result.kind = "action"
            /\ import_call.result.action \in {"created", "updated"}
            /\ Len(PropertyCreates)
                  = Len(args.properties) - Cardinality(UnresolvedProperties)
            /\ props.skipped
                  = Cardinality(UnresolvedProperties) + Failures(PropertyCreates)
            /\ props.created + props.skipped = Len(args.properties)
            /\ Len(props.errors) = props.skipped
            /\ args.kind = "datasource_type" =>
                  /\ Len(MethodCreates) = Len(import_call.methods)
                  /\ meths.created + Failures(MethodCreates)
                        = Len(import_call.methods)
                  /\ Len(ParameterCreates)
                        = Cardinality(ParametersOfCreated)
                              - Cardinality(UnresolvedParameters)
                  /\ meths.parameters_created + Failures(ParameterCreates)
                        = Len(ParameterCreates)
                  /\ Len(meths.errors)
                        = Failures(MethodCreates)
                              + Cardinality(UnresolvedParameters)
                              + Failures(ParameterCreates)

\* C19, amended: once an import is past validation, the base create/update
\* and the reference listings, and as long as no request raises an exception
\* other than GimsApiError, a property or parameter whose value-type or
\* section name cannot be resolved, or whose create request fails with a
\* GimsApiError, is skipped with one recorded error, and every remaining
\* property and method and every parameter of a created method is still
\* attempted.  The import then returns its created/updated outcome with the
\* counts and the recorded errors if the serialized report is no longer
\* than the response size limit; if it is longer - every recorded error
\* adds a line to it - the import returns "Response too large" instead,
\* after all those requests.  A request that raises another exception ends
\* the import at once with that error.
C19_ChildFailuresEndInReportOrTooLarge ==
    (import_call.pc = "done" /\ ReachedChildren) =>
        LET args == import_call.args[1]
            props == import_call.properties_result
            meths == import_call.methods_result
        IN  /\ OtherExceptions # {} =>
                  /\ import_call.result = ExceptionResult
                  /\ OtherExceptions = {Len(requests)}
            /\ OtherExceptions = {} =>
                  /\ Len(PropertyCreates)
                        = Len(args.properties) - Cardinality(UnresolvedProperties)
                  /\ props.skipped
                        = Cardinality(UnresolvedProperties)
                              + Failures(PropertyCreates)
                  /\ props.created + props.skipped = Len(args.properties)
                  /\ Len(props.errors) = props.skipped
                  /\ args.kind = "datasource_type" =>
                        /\ Len(MethodCreates) = Len(import_call.methods)
                        /\ meths.created + Failures(MethodCreates)
                              = Len(import_call.methods)
                        /\ Len(ParameterCreates)
                              = Cardinality(ParametersOfCreated)
                                    - Cardinality(UnresolvedParameters)
                        /\ meths.parameters_created + Failures(ParameterCreates)
                              = Len(ParameterCreates)
                        /\ Len(meths.errors)
                              = Failures(MethodCreates)
                                    + Cardinality(UnresolvedParameters)
                                    + Failures(ParameterCreates)
                  /\ ReportBytes <= max_response_size =>
                        /\ import_call.result.kind = "action"
                        /\ import_call.result.action \in {"created", "updated"}
                        /\ import_call.result.properties = props
                        /\ import_call.result.methods = meths
                  /\ ReportBytes > max_response_size =>
                        import_call.result
                            = TooLargeResult(ReportBytes, max_response_size)

\* C19 happens: a datasource type whose first property names an unknown value
\* type and whose second one is created; a method whose first parameter
\* names an unknown value type and whose second one is created; a child
\* request that failed; the import reports its outcome.
C19_Witness ==
    /\ import_call.pc = "done"
    /\ ReachedChildren
    /\ import_call.result.kind = "action"
    /\ import_call.args[1].kind = "datasource_type"
    /\ UnresolvedProperties = {1}
    /\ import_call.result.properties.created = 1
    /\ import_call.result.properties.skipped = 1
    /\ UnresolvedParameters # {}
    /\ import_call.result.methods.parameters_created = 1
    /\ Failures(MethodCreates) + Failures(ParameterCreates) = 1

\* The properties _import_properties is done with: all of them once its loop
\* has ended, those before position i while it runs.
PropertiesDone ==
    IF import_call.pc = "properties"
    THEN import_call.i - 1
    ELSE Len(import_call.args[1].properties)

\* C29: for _import_properties, after any sequence of resolution outcomes and
\* GimsApiError create failures, created + skipped is the number of
\* properties of the document set, the number of recorded errors is skipped,
\* and created is the number of property create requests that succeeded; the
\* same holds after every iteration for the properties done so far.  A
\* request that raises another exception ends the loop before its time: the
\* errors are still one per skipped property and created still counts the
\* create requests that succeeded.  The report of the import, when the
\* import returns one, carries these counts.
C29_PropertyCounts ==
    (ReachedChildren /\ import_call.args[1].kind # "script") =>
        LET counts == import_call.properties_result IN
        /\ Len(counts.errors) = counts.skipped
        /\ counts.created
              = Cardinality({n \in DOMAIN PropertyCreates : PropertyCreates[n].ok})
        /\ OtherExceptions = {} =>
              /\ counts.created + counts.skipped = PropertiesDone
              /\ counts.created
                    = Len(PropertyCreates) - Failures(PropertyCreates)
              /\ counts.skipped
                    = Cardinality({i \in UnresolvedProperties :
                                       i <= PropertiesDone})
                          + Failures(PropertyCreates)
        /\ (import_call.pc = "done" /\ import_call.result.kind = "action") =>
              /\ import_call.result.properties.created = counts.created
              /\ import_call.result.properties.skipped = counts.skipped
              /\ import_call.result.properties.errors = counts.errors

\* C29 happens: _import_properties has ended for two properties, the first
\* with an unknown value type and the second with a failed create request:
\* nothing created, two skipped, two errors.
C29_Witness ==
    /\ ReachedChildren
    /\ import_call.pc # "properties"
    /\ Len(import_call.args[1].properties) = 2
    /\ UnresolvedProperties = {1}
    /\ Len(PropertyCreates) = 1
    /\ Failures(PropertyCreates) = 1
    /\ import_call.properties_result.created = 0
    /\ import_call.properties_result.skipped = 2
    /\ Len(import_call.properties_result.errors) = 2

\* The import found its entity and has sent the update of the base entity.
UpdatingExisting ==
    /\ import_call.args # None
    /\ import_call.args[1].kind # "script"
    /\ import_call.existing # None
    /\ \E n \in DOMAIN requests :
          requests[n].op = UpdateOp(import_call.args[1].kind)

\* The client calls that create a child.
ChildCreateOps ==
    {"create_datasource_type_property", "create_activator_type_property",
     "create_datasource_type_method", "create_method_parameter"}

\* The number of method create requests among the first n requests that
\* succeeded.
MethodsCreatedBy(n) ==
    Cardinality({m \in 1..n : /\ requests[m].op = "create_datasource_type_method"
                              /\ requests[m].ok})

\* C30: on an import with update_existing=true of a type that already
\* exists, children are only ever created.  The requests are the listing, one
\* update of the existing base entity, the two reference listings and create
\* requests for children: nothing reads, updates or deletes a remote
\* property, method or parameter, so what exists remotely under the same
\* label has no influence.  An import that got to its children and ran to
\* its end (no request raised an exception other than GimsApiError) has
\* sent one create request per resolvable property and one per method of
\* the document set, all for the existing entity; every parameter create
\* request follows, with parameter creates alone in between, a method create
\* request that succeeded, and goes to that method.
C30_UpdateOnlyCreatesChildren ==
    UpdatingExisting =>
        LET args == import_call.args[1]
            id == import_call.existing[1].id
        IN  /\ args.update_existing
            /\ \A n \in DOMAIN requests :
                  /\ requests[n].op
                        \in {ListOp(args.kind), UpdateOp(args.kind),
                             "list_value_types", "list_property_sections"}
                                \cup ChildCreateOps
                  /\ requests[n].op \in ChildCreateOps => requests[n].verb = "POST"
                  /\ requests[n].op = UpdateOp(args.kind) =>
                        n = 2 /\ requests[n].target = id
            /\ \A n \in DOMAIN PropertyCreates : PropertyCreates[n].target = id
            /\ \A n \in DOMAIN MethodCreates : MethodCreates[n].target = id
            /\ Len(PropertyCreates)
                  <= Len(args.properties) - Cardinality(UnresolvedProperties)
            /\ Len(MethodCreates) <= Len(import_call.methods)
            /\ (/\ import_call.pc = "done"
                /\ ReachedChildren
                /\ OtherExceptions = {}) =>
                  /\ import_call.action = "updated"
                  /\ Len(PropertyCreates)
                        = Len(args.properties) - Cardinality(UnresolvedProperties)
                  /\ args.kind = "datasource_type" =>
                        Len(MethodCreates) = Len(import_call.methods)
                  /\ args.kind = "activator_type" =>
                        Len(MethodCreates) = 0 /\ Len(ParameterCreates) = 0
            /\ \A n \in DOMAIN requests :
                  requests[n].op = "create_method_parameter" =>
                      \E m \in 1..(n - 1) :
                          /\ requests[m].op = "create_datasource_type_method"
                          /\ requests[m].ok
                          /\ \A j \in (m + 1)..n :
                                requests[j].op = "create_method_parameter"
                          /\ requests[n].target = MethodsCreatedBy(m)

\* C30 happens: an update import of an existing datasource type has finished
\* with a property created, one method create failed, one succeeded, and a
\* parameter created for the latter.
C30_Witness ==
    /\ UpdatingExisting
    /\ import_call.pc = "done"
    /\ ReachedChildren
    /\ import_call.args[1].kind = "datasource_type"
    /\ Len(PropertyCreates) >= 1
    /\ Len(MethodCreates) = 2
    /\ Failures(MethodCreates) = 1
    /\ \E i \in DOMAIN import_call.methods :
          /\ import_call.methods[i].parameters # <<>>
          /\ ~MethodCreates[i].ok
    /\ Len(ParameterCreates) >= 1

\* An import whose children were all attempted, none of them created, and
\* that ends with "Response too large" under the small limit.
ReportTooLarge ==
    /\ import_call.pc = "done"
    /\ ReachedChildren
    /\ OtherExceptions = {}
    /\ TooLarge
    /\ import_call.properties_result.skipped
          = Len(import_call.args[1].properties)
    /\ StateChanging # {}

\* An import that a request which raised no GimsApiError has ended in the
\* middle of its properties.
EndedByOtherException ==
    /\ import_call.pc = "done"
    /\ ReachedChildren
    /\ import_call.result = ExceptionResult
    /\ Len(PropertyCreates) = 1
    /\ PropertyCreates[1].raised
    /\ import_call.methods # <<>>
    /\ MethodCreates = <<>>

(***************************************************************************)
(* Properties of the serializers                                           *)
(***************************************************************************)

\* A restored property carries the values of the original one, the names of
\* its value type and section under the keys of the export format.
SameProperty(original, restored) ==
    /\ restored["name"] = original["name"]
    /\ restored["label"] = original["label"]
    /\ restored["value_type"] = original["value_type_name"]
    /\ restored["section"] = original["section_name"]
    /\ restored["default_value"] = original["default_value"]
    /\ restored["is_required"] = original["is_required"]
    /\ restored["is_hidden"] = original["is_hidden"]
    /\ restored["is_inner"] = original["is_inner"]
    /\ restored["description"] = original["description"]

SameProperties(originals, restored) ==
    /\ Len(restored) = Len(originals)
    /\ \A i \in 1..Len(originals) : SameProperty(originals[i], restored[i])

SameParameter(original, restored) ==
    /\ restored["label"] = original["label"]
    /\ restored["input_type"] = original["input_type"]
    /\ restored["value_type"] = original["value_type_name"]
    /\ restored["default_value"] = original["default_value"]
    /\ restored["description"] = original["description"]
    /\ restored["is_hidden"] = original["is_hidden"]

SameParameters(originals, restored) ==
    /\ Len(restored) = Len(originals)
    /\ \A i \in 1..Len(originals) : SameParameter(originals[i], restored[i])

SameMethod(original, restored) ==
    /\ restored["name"] = original["name"]
    /\ restored["label"] = original["label"]
    /\ restored["code"] = original["code"]
    /\ restored["description"] = original["description"]
    /\ SameParameters(original["parameters"], restored["parameters"])

\* The same methods, in whatever order the re-import lists them.
SameMethods(originals, restored) ==
    /\ Len(restored) = Len(originals)
    /\ \E order \in Orders(1..Len(originals)) :
           \A i \in 1..Len(originals) : SameMethod(originals[i], restored[order[i]])

\* C7: for every script, activator-type and datasource-type record,
\* deserializing the document set the serializer produced yields an entity
\* equal to the original in name, description, code and every property and
\* method-parameter field (the same methods, each with the same
\* parameters); the export timestamp is not compared.
C7_RoundTripRestoresEntity ==
    round_trip.pc = "restored" =>
        LET original == round_trip.entity
            restored == round_trip.restored
        IN  /\ restored["name"] = original["name"]
            /\ restored["description"] = original["description"]
            /\ round_trip.kind # "datasource_type" =>
                   restored["code"] = original["code"]
            /\ round_trip.kind # "script" =>
                   SameProperties(original["properties"], restored["properties"])
            /\ round_trip.kind = "datasource_type" =>
                   SameMethods(original["methods"], restored["methods"])

\* C18: serialize_datasource_type gives each method its own subtree: for an
\* entity with n methods the document set holds meta.yaml, properties.yaml
\* and exactly 3n method files methods/<label>/{meta.yaml, code.py,
\* params.yaml}, and every method's three files hold that method's content,
\* none replaced by another method's (two methods of one label included).
C18_EachMethodOwnSubtree ==
    (round_trip.pc # "idle" /\ round_trip.kind = "datasource_type") =>
        LET methods == round_trip.entity["methods"]
            files == round_trip.files
        IN  /\ MetaPath \in DOMAIN files
            /\ PropertiesPath \in DOMAIN files
            /\ Cardinality(DOMAIN files) = 2 + 3 * Len(methods)
            /\ \A i \in DOMAIN methods :
                  \A file \in {"meta.yaml", "code.py", "params.yaml"} :
                      LET path == MethodPath(methods[i]["label"], file) IN
                      /\ path \in DOMAIN files
                      /\ files[path] = MethodFiles(methods[i])[path]

(***************************************************************************)
(* Properties of the error details                                         *)
(***************************************************************************)

\* The body of the reported response is not a JSON document with a usable
\* detail: it is HTML, other text, or JSON without a get.
FromNonJsonBody ==
    /\ reported # NoReport
    /\ ~(IsJsonError(reported.response.body)
            /\ JsonErrorDetail(reported.response.body) # None)

\* C11: every error detail that reaches the caller from a non-JSON or HTML
\* error response, on the request path and on the token-refresh path alike,
\* is a short sanitized description: an HTML page contributes only its title
\* or a fixed notice, other text is cut to at most 500 characters; the detail
\* is never the raw body of an HTML page or of a text longer than that.
C11_ErrorDetailIsSanitized ==
    FromNonJsonBody =>
        /\ IsHtmlResponse(reported.response) =>
              /\ StartsWithAt(reported.detail,
                              "Server returned HTML error page", 0)
              /\ ~Contains(reported.detail, "<")
        /\ ~IsHtmlResponse(reported.response) =>
              /\ Slice(reported.detail, 0, MaxErrorText)
                    = Slice(reported.response.body, 0, MaxErrorText)
              /\ Len(reported.response.body) <= MaxErrorText =>
                    reported.detail = reported.response.body
              /\ Len(reported.response.body) > MaxErrorText =>
                    StartsWithAt(reported.detail, "... (truncated, ",
                                 MaxErrorText)

(***************************************************************************)
(* Properties of the paths                                                 *)
(***************************************************************************)

\* The positions of the folders from a root down to position i of the list:
\* the first has a null parent, each next one names its predecessor as parent.
ChainsTo(folders, i) ==
    {chain \in UNION {[1..n -> DOMAIN folders] : n \in 1..Len(folders)} :
        /\ chain[Len(chain)] = i
        /\ folders[chain[1]].parent_folder_id = NullId
        /\ \A n \in 1..(Len(chain) - 1) :
              folders[chain[n + 1]].parent_folder_id = folders[chain[n]].id}

\* The parent references are acyclic and resolvable: every folder is reached
\* from a root by a chain of parent references.
AcyclicAndResolvable(folders) ==
    \A i \in DOMAIN folders : ChainsTo(folders, i) # {}

\* "/" + the names along the chain to position i, joined by "/".
PathAlongChain(folders, i) ==
    LET chain == CHOOSE chain \in ChainsTo(folders, i) : TRUE
    IN  "/" \o JoinSlash([n \in DOMAIN chain |-> folders[chain[n]].name])

\* C13: for a folder list whose parent references are acyclic and resolvable,
\* build_folder_paths returns the folders in input order, each with the path
\* "/" + the names of its ancestors from the root down + its own name joined
\* by "/" ("/<name>" for a null parent); with include_root the list is
\* preceded by exactly one synthetic root entry of id null and path "/", and
\* without it there is none.
C13_FolderPaths ==
    (util_call.fn = "build_folder_paths"
        /\ AcyclicAndResolvable(util_call.folders)) =>
        LET folders == util_call.folders
            lead == IF util_call.include_root THEN 1 ELSE 0
        IN  /\ util_call.result.returned
            /\ Len(util_call.result.value) = Len(folders) + lead
            /\ util_call.include_root =>
                  /\ util_call.result.value[1].id = NullId
                  /\ util_call.result.value[1].path = "/"
                  /\ util_call.result.value[1].is_root
            /\ \A i \in DOMAIN folders :
                  LET entry == util_call.result.value[i + lead] IN
                  /\ entry.id = folders[i].id
                  /\ entry.name = folders[i].name
                  /\ entry.parent_folder_id = folders[i].parent_folder_id
                  /\ ~entry.is_root
                  /\ entry.path = PathAlongChain(folders, i)
                  /\ folders[i].parent_folder_id = NullId =>
                        entry.path = "/" \o folders[i].name

\* C13 happens: a list of three nested folders given leaf first, with the
\* root entry asked for; the leaf's path names its two ancestors.
C13_Witness ==
    /\ util_call.fn = "build_folder_paths"
    /\ util_call.include_root
    /\ util_call.folders
          = <<ApiFolder(3, 2), ApiFolder(1, NullId), ApiFolder(2, 1)>>
    /\ util_call.result.returned
    /\ util_call.result.value[2].path = "/scripts/utils/scripts"

\* The folder of the list that carries the id.
FolderOfId(folders, id) ==
    folders[CHOOSE i \in DOMAIN folders : folders[i].id = id]

\* C14: build_item_paths keeps the items in order and gives an item whose
\* folder reference is non-null and present in the folder list the path
\* "<folder path>/<item name>", and every other item (null or unresolvable
\* reference) the path "/<item name>"; an item with a null reference gets
\* "/<item name>" even when the folder list holds the synthetic root entry.
C14_ItemPaths ==
    util_call.fn = "build_item_paths" =>
        LET items == util_call.items
            folders == util_call.folders
            result == util_call.result.value
        IN  /\ Len(result) = Len(items)
            /\ \A i \in DOMAIN items :
                  /\ result[i].name = items[i].name
                  /\ result[i].folder_id = items[i].folder_id
                  /\ result[i].path =
                        IF /\ items[i].folder_id # NullId
                           /\ \E n \in DOMAIN folders :
                                 folders[n].id = items[i].folder_id
                        THEN FolderOfId(folders, items[i].folder_id).path
                                 \o "/" \o items[i].name
                        ELSE "/" \o items[i].name

\* C14 happens: with the root entry in the folder list, an item in a nested
\* folder and an item with a null reference.
C14_Witness ==
    /\ util_call.fn = "build_item_paths"
    /\ \E n \in DOMAIN util_call.folders : util_call.folders[n].id = NullId
    /\ util_call.items = <<[name |-> "poll", folder_id |-> 2],
                           [name |-> "main", folder_id |-> NullId]>>
    /\ util_call.result.value[1].path = "/scripts/utils/poll"
    /\ util_call.result.value[2].path = "/main"

\* The ids reached from id by following parent references through the
\* folders of the list, in 1..n steps.
RECURSIVE AncestorIds(_, _, _)
AncestorIds(folders, ids, n) ==
    IF n = 0 THEN {}
    ELSE LET parents == {folders[i].parent_folder_id :
                            i \in {j \in DOMAIN folders : folders[j].id \in ids}}
                            \cap {folders[i].id : i \in DOMAIN folders}
         IN  parents \cup AncestorIds(folders, parents, n - 1)

\* Some folder of the list is its own ancestor.
SomeOwnAncestor(folders) ==
    \E i \in DOMAIN folders :
        folders[i].id \in AncestorIds(folders, {folders[i].id}, Len(folders))

\* C26: build_folder_paths terminates for every folder list in which no
\* folder is its own ancestor, dangling parent ids included, and does not
\* terminate when some folder is its own ancestor (a folder whose
\* parent_folder_id is its own id, or a longer cycle).
C26_TerminatesIffAcyclic ==
    util_call.fn = "build_folder_paths" =>
        (util_call.result.returned <=> ~SomeOwnAncestor(util_call.folders))

\* C26 happens: a call with a folder that is its own parent, next to a folder
\* with a dangling parent, has not returned.
C26_Witness ==
    /\ util_call.fn = "build_folder_paths"
    /\ \E i, j \in DOMAIN util_call.folders :
          /\ util_call.folders[i].parent_folder_id = util_call.folders[i].id
          /\ util_call.folders[j].parent_folder_id = DanglingId
    /\ ~util_call.result.returned

\* A call whose list has dangling parents and a chain into them has returned.
DanglingReturned ==
    /\ util_call.fn = "build_folder_paths"
    /\ \E i, j \in DOMAIN util_call.folders :
          /\ util_call.folders[i].parent_folder_id = DanglingId
          /\ util_call.folders[j].parent_folder_id = util_call.folders[i].id
    /\ util_call.result.returned

(***************************************************************************)
(* Properties of the code search                                           *)
(***************************************************************************)

\* The call of search_in_code returned a list of results.
SearchReturned ==
    util_call.fn = "search_in_code" /\ util_call.result.returned

\* The pattern has at least one match in the field: it matches at some
\* position of the field's text; a null or absent field has no text.
HasMatch(atoms, field, case_sensitive) ==
    /\ field.kind = "str"
    /\ \E s \in 0..Len(field.text) :
          MatchFrom(atoms, 1, field.text, s, s, FALSE, case_sensitive) # -1

\* The searched field of the item at position i of the call.
SearchedField(i) == FieldOf(util_call.items[i], util_call.code_field)

\* The positions of the items the results were made of, in result order.
ReturnedPositions ==
    [n \in DOMAIN util_call.result.value |-> util_call.result.value[n].index]

\* Every result is its item, without the code unless that was asked for.
ResultsCarryItems ==
    \A n \in DOMAIN util_call.result.value :
        LET result == util_call.result.value[n] IN
        /\ result.index \in DOMAIN util_call.items
        /\ result.item.name = util_call.items[result.index].name
        /\ result.item.code = IF util_call.include_code
                              THEN util_call.items[result.index].code
                              ELSE AbsentField
        /\ result.matched_in = util_call.code_field

\* The results keep the input order of the items, each item at most once.
InInputOrder ==
    \A m, n \in DOMAIN ReturnedPositions :
        m < n => ReturnedPositions[m] < ReturnedPositions[n]

\* No result is made of an item whose searched field is empty, null or
\* absent.
NoneEmpty ==
    \A n \in DOMAIN ReturnedPositions :
        /\ SearchedField(ReturnedPositions[n]).kind = "str"
        /\ SearchedField(ReturnedPositions[n]).text # ""

\* The statement of C15 as given: search_in_code never returns an item whose
\* searched field is empty, null or absent, and returns an item if and only
\* if the pattern has at least one match in that field, in input order.
C15_ReturnedIffMatch ==
    SearchReturned =>
        /\ ResultsCarryItems
        /\ InInputOrder
        /\ NoneEmpty
        /\ \A i \in DOMAIN util_call.items :
              (\E n \in DOMAIN ReturnedPositions : ReturnedPositions[n] = i)
                  <=> HasMatch(PatternOf(util_call.query).atoms,
                               SearchedField(i), util_call.case_sensitive)

\* C15: search_in_code never returns an item whose searched field is empty,
\* null or absent; it returns an item whose searched field is a non-empty
\* text if and only if the pattern has at least one match in that field; the
\* results keep the input order of the items.
C15_ReturnedIffNonEmptyMatch ==
    SearchReturned =>
        /\ ResultsCarryItems
        /\ InInputOrder
        /\ NoneEmpty
        /\ \A i \in DOMAIN util_call.items :
              (SearchedField(i).kind = "str" /\ SearchedField(i).text # "") =>
                  ((\E n \in DOMAIN ReturnedPositions :
                        ReturnedPositions[n] = i)
                      <=> HasMatch(PatternOf(util_call.query).atoms,
                                   SearchedField(i), util_call.case_sensitive))

\* C15 happens: the empty query, which matches in every text, over an item
\* with code and an item with empty code; only the first is returned.
C15_Witness ==
    /\ SearchReturned
    /\ util_call.query = ""
    /\ util_call.code_field = "code"
    /\ util_call.items = <<SearchItem("poll", Text("print(1)")),
                           SearchItem("poll", Text(""))>>
    /\ ReturnedPositions = <<1>>

\* C16: each result carries match_count equal to the number of matches in the
\* field and min(5, match_count) contexts, one for each of the first matches
\* in order; the context of a match is field[max(0, start - 50) :
\* min(len(field), end + 50)], so it lies inside the field and contains the
\* match.
C16_MatchCountAndWindows ==
    SearchReturned =>
        \A r \in DOMAIN util_call.result.value :
            LET result == util_call.result.value[r]
                field == SearchedField(result.index).text
                found == FindIter(PatternOf(util_call.query).atoms, field,
                                  util_call.case_sensitive)
            IN  /\ result.match_count = Len(found)
                /\ Len(result.matches) =
                      IF Len(found) < MaxContexts THEN Len(found)
                      ELSE MaxContexts
                /\ \A n \in DOMAIN result.matches :
                      LET from == IF found[n].start > ContextMargin
                                  THEN found[n].start - ContextMargin ELSE 0
                          to == IF found[n].end + ContextMargin < Len(field)
                                THEN found[n].end + ContextMargin
                                ELSE Len(field)
                          window == result.matches[n].context
                      IN  /\ result.matches[n].position = found[n].start
                          /\ window = Slice(field, from, to)
                          /\ Len(window) = to - from
                          /\ Len(window) <= Len(field)
                          /\ Slice(window, found[n].start - from,
                                   found[n].end - from)
                                = Slice(field, found[n].start, found[n].end)

\* C16 happens: one result with more matches than contexts, and one whose
\* match lies further than the margin from both ends of its field, so that
\* the context is a proper part of the field.
C16_Witness ==
    /\ SearchReturned
    /\ \E r \in DOMAIN util_call.result.value :
          /\ util_call.result.value[r].match_count > MaxContexts
          /\ Len(util_call.result.value[r].matches) = MaxContexts
    /\ \E r \in DOMAIN util_call.result.value :
          LET result == util_call.result.value[r] IN
          /\ result.match_count = 1
          /\ result.matches[1].position > ContextMargin
          /\ Len(result.matches[1].context)
                < Len(SearchedField(result.index).text)
          /\ Len(result.matches[1].context) > 2 * ContextMargin

\* The field holds the query as literal text, under the case flag.
HoldsLiteral(field, query, case_sensitive) ==
    /\ field.kind = "str"
    /\ field.text # ""
    /\ IF case_sensitive THEN Contains(field.text, query)
       ELSE Contains(FoldText(field.text), FoldText(query))

\* C17: search_in_code never fails on the query: it returns for every query,
\* and for a query that does not compile as a regular expression it returns
\* exactly the items whose field contains the query as literal text (under
\* the same case flag).
C17_NeverFailsOnTheQuery ==
    util_call.fn = "search_in_code" =>
        /\ util_call.result.returned
        /\ Compile(util_call.query).kind # "pattern" =>
              /\ InInputOrder
              /\ \A i \in DOMAIN util_call.items :
                    (\E n \in DOMAIN ReturnedPositions :
                          ReturnedPositions[n] = i)
                        <=> HoldsLiteral(SearchedField(i), util_call.query,
                                         util_call.case_sensitive)

(***************************************************************************)
(* Properties of the log stream                                            *)
(***************************************************************************)

\* The stream has stopped producing events without raising an error.
StreamStopped == stream.pc = "done" /\ stream.result.kind = "return"

\* The stream is about to connect again.
Reconnecting == stream.pc = "loop"

\* C20: stream_sse reconnects both when a read times out and when the server
\* ends the stream, as long as the overall deadline has not elapsed, and it
\* stops producing events only once the overall deadline has passed: after a
\* read timeout or a stream end before the deadline the stream is at the top
\* of its loop again, and whenever the generator has finished the deadline
\* has passed.
C20_ReconnectsUntilDeadline ==
    /\ stream.last \in {"read_timeout", "stream_end"} /\ ~DeadlinePassed(stream)
          => Reconnecting
    /\ StreamStopped => DeadlinePassed(stream)

(***************************************************************************)
(* Properties of one session: request() calls and a log stream on one      *)
(* client                                                                  *)
(***************************************************************************)

\* No request() call is under way.
NoCallInFlight == \A c \in Calls : calls[c].pc \in {"idle", "done"}

\* Call c takes the connection context and sends its request in this step.
RequestStarts(c) == calls[c].pc = "idle" /\ calls'[c].pc = "first"

\* C24: whenever a refresh has changed the access token, whether a 401 in
\* request() or a 401 inside stream_sse set it off, the connection context
\* the next request() uses carries the new access token in its Authorization
\* header: a request() that starts after the change is sent with the stored
\* access token.
C24_NextRequestCarriesNewToken ==
    [][\A c \in Calls :
          (RequestStarts(c) /\ access_token # ConfigAccessToken) =>
              /\ client'.auth = access_token
              /\ calls'[c].sent[1].auth = access_token]_vars

\* The same for the refreshes of request() alone: the stream has not
\* refreshed.
RequestRefreshRebuildsContext ==
    [][\A c \in Calls :
          (RequestStarts(c) /\ access_token # ConfigAccessToken
              /\ stream.refreshSent = <<>>) =>
              calls'[c].sent[1].auth = access_token]_vars

(***************************************************************************)
(* Properties of the log tool                                              *)
(***************************************************************************)

\* The bytes the buffered lines take in the result, a newline for each.
RECURSIVE BufferedBytes(_)
BufferedBytes(buffer) ==
    IF buffer = <<>> THEN 0
    ELSE Len(Head(buffer)) + 1 + BufferedBytes(Tail(buffer))

\* The tool takes the next line of an event's content.
TakesLine == log_call.pc = "lines" /\ log_call' # log_call

\* The line taken is one the tool would buffer: not blank and passing the
\* filter.
TakenLineCounts ==
    /\ ~IsBlank(Head(log_call.lines))
    /\ _apply_filter(_parse_log_line(Head(log_call.lines),
                                     log_call.arguments.keep_timestamp),
                     log_call.arguments.filter_pattern)

\* The line taken would push the buffer over the limit.
TakenLineOverflows ==
    log_call.buffer_size
        + Len(_parse_log_line(Head(log_call.lines),
                              log_call.arguments.keep_timestamp)) + 1
      > log_call.max_size

\* C28: throughout get_script_execution_log, buffer_size is the sum over the
\* buffered lines of (byte length + 1) and never exceeds the configured
\* maximum response size: a line that would push it over the limit is never
\* appended, and such a line without an end marker sets the size-limit flag
\* and stops the collection.  (The lines of the model are ASCII: a byte per
\* character.)
C28_BufferWithinLimit ==
    [][/\ log_call'.buffer_size = BufferedBytes(log_call'.buffer)
       /\ log_call'.buffer_size <= log_call'.max_size
       /\ (TakesLine /\ TakenLineCounts /\ TakenLineOverflows) =>
             /\ log_call'.buffer = log_call.buffer
             /\ ~_check_end_markers(Head(log_call.lines),
                                    log_call.arguments.end_markers) =>
                   /\ log_call'.size_limit_reached
                   /\ log_call'.pc = "done"
                   /\ log_call'.result.kind = "return"
                   /\ log_call'.result.value.lines = log_call.buffer]_vars

\* A long line was buffered under a limit of one KB, and the line after it
\* did not fit.
C28_Witness ==
    /\ log_call.pc = "done"
    /\ log_call.size_limit_reached
    /\ log_call.buffer = <<LongLine>>
    /\ log_call.max_size > log_call.buffer_size
    /\ log_call.result.value.lines = <<LongLine>>

\* An end marker that did not fit was dropped without the flag.
MarkerDropped ==
    /\ log_call.pc = "done"
    /\ log_call.end_marker_found
    /\ ~log_call.size_limit_reached
    /\ log_call.buffer = <<LongLine>>

\* The tool has returned its text after it had the log URL.
LogReturned ==
    /\ log_call.pc = "done"
    /\ log_call.result.kind = "return"
    /\ log_call.log_url # ""

\* C22: get_script_execution_log returns only after a line containing one of
\* the end markers was received or the overall timeout elapsed; it does not
\* return earlier with neither condition met.
C22_ReturnsOnMarkerOrTimeout ==
    LogReturned =>
        \/ log_call.end_marker_found
        \/ log_call.now >= log_call.timeout

\* The returns of the tool with neither condition met: the size limit, an
\* error of the stream or of the tool's own, a stream that ended after lines
\* were buffered, and the end of the passes with retry_delay or less to go.
EarlyReturnsAreKnown ==
    (LogReturned /\ ~C22_ReturnsOnMarkerOrTimeout) =>
        \/ log_call.size_limit_reached
        \/ log_call.connection_error # None
        \/ /\ log_call.buffer # <<>>
           /\ log_call.ended[Len(log_call.ended)] = "return"
           /\ LogWarnings(log_call) = <<>>
        \/ /\ log_call.timeout_reached
           /\ log_call.received_any_data
           /\ log_call.timeout - log_call.now <= retry_delay

\* The stream ended after a line was buffered: the tool returned the line
\* without a warning, before the timeout and without an end marker.
SilentEarlyReturn ==
    /\ LogReturned
    /\ ~log_call.end_marker_found
    /\ log_call.now < log_call.timeout
    /\ log_call.buffer # <<>>
    /\ log_call.result.value.warnings = <<>>

\* The tool reported a timeout that had not elapsed.
TimeoutReportedEarly ==
    /\ LogReturned
    /\ log_call.timeout_reached
    /\ log_call.now < log_call.timeout

\* The request of get_script_log_url ended with the AuthError of a rejected
\* refresh: the tool is about to raise it or has raised it, and no stream
\* was opened.
UrlAuthErrorSurfaces ==
    (log_call.pc # "idle" /\ calls[LogCaller].result.kind = "GimsAuthError") =>
        /\ log_call.pc \in {"url", "done"}
        /\ log_call.pc = "done" => log_call.result = calls[LogCaller].result
        /\ stream.pc = "idle"
        /\ Len(calls[LogCaller].sent) = 1

\* A stream_sse call of the tool ended with the AuthError of a rejected
\* refresh: it was the last one, and the tool has ended without a wait.
StreamAuthErrorSurfaces ==
    \A i \in DOMAIN log_call.ended :
        log_call.ended[i] = "GimsAuthError" =>
            /\ i = Len(log_call.ended)
            /\ log_call.iterations = i
            /\ log_call.pc = "done"

\* C21: when the refresh endpoint answers 401, the AuthError is surfaced to
\* the caller immediately: no further connection, refresh or retry attempt is
\* made after it, on every path of get_script_execution_log (the request of
\* the log URL and the stream).
C21_AuthErrorSurfacesAtOnce ==
    UrlAuthErrorSurfaces /\ StreamAuthErrorSurfaces

\* After the AuthError of a stream the tool has opened another stream, whose
\* connection was answered 401 and which has sent another refresh request.
RefreshAfterAuthError ==
    /\ log_call.pc = "streaming"
    /\ log_call.ended = <<"GimsAuthError">>
    /\ stream.pc = "refresh"
    /\ Len(stream.refreshSent) = 1

\* stream_sse starts a connection attempt.
StreamConnects == Len(stream'.connections) > Len(stream.connections)

\* The tool starts a pass of its retry loop, and with it a stream_sse call.
LogPassStarts == log_call'.iterations > log_call.iterations

\* The tool starts a sleep.
LogSleepStarts ==
    /\ log_call'.pc \in {"sleep", "last_sleep"}
    /\ log_call.pc \notin {"sleep", "last_sleep"}

\* No connection attempt, pass or sleep begins once the time it is bounded
\* by has run out, and no sleep extends beyond the overall timeout.
NothingStartsLate ==
    /\ StreamConnects => stream.now < stream.timeout
    /\ LogPassStarts =>
          /\ log_call'.started_at < log_call.timeout
          /\ stream'.timeout
                 = log_call.timeout - log_call'.started_at
    /\ LogSleepStarts =>
          /\ log_call'.now < log_call.timeout
          /\ log_call'.wake <= log_call.timeout

\* C23: no streaming operation runs forever.  With every network operation
\* returning or timing out and the clock advancing, every stream_sse call and
\* every get_script_execution_log call ends, and no reconnect or retry loop
\* goes round again once the overall timeout has elapsed: what runs beyond
\* it is the operation or the sleep in progress.  This includes a server that
\* answers every connection attempt with 401 while the refresh succeeds.
C23_StreamingTerminates ==
    /\ (log_call.pc # "idle") ~> (log_call.pc = "done")
    /\ (stream.pc \notin {"idle", "done"}) ~> (stream.pc = "done")
    /\ [][NothingStartsLate]_vars

\* Every connection attempt of a stream_sse call was answered 401 and every
\* refresh succeeded; the call returned at its deadline and the tool ended.
C23_Witness ==
    /\ log_call.pc = "done"
    /\ stream.pc = "done"
    /\ stream.last = "deadline"
    /\ Len(stream.connections) >= 2
    /\ Len(stream.refreshSent) = Len(stream.connections)
    /\ stream.now >= stream.timeout

(***************************************************************************)
(* Specifications                                                          *)
(***************************************************************************)

Init ==
    TransportInit /\ ClassifyQuiet /\ GovernorInit /\ ToolInit /\ ImportQuiet
        /\ SerializerQuiet
        /\ ErrorQuiet
        /\ UtilQuiet
        /\ StreamQuiet
        /\ LogQuiet

Next ==
    \/ \E c \in Calls, req \in Requests : RequestStart(c, req)
    \/ \E c \in Calls, response \in RequestResponses : FirstResponse(c, response)
    \/ \E c \in Calls : RequestError(c)
    \/ \E c \in Calls, response \in RefreshResponses : RefreshResponse(c, response)
    \/ \E c \in Calls : RefreshRequestError(c)
    \/ \E c \in Calls : RecreateClose(c)
    \/ \E c \in Calls : RecreateAndRetry(c)
    \/ \E c \in Calls, response \in RequestResponses : RetryResponse(c, response)
    \/ Close
    \/ CloseDone

Spec == Init /\ [][Next]_vars

InitClassify ==
    TransportInit /\ ClassifyInit /\ GovernorInit /\ ToolInit /\ ImportQuiet
        /\ SerializerQuiet
        /\ ErrorQuiet
        /\ UtilQuiet
        /\ StreamQuiet
        /\ LogQuiet

NextClassify == HandleResponse

SpecClassify == InitClassify /\ [][NextClassify]_vars

InitGovernor ==
    TransportInit /\ ClassifyQuiet /\ GovernorInit /\ ToolInit /\ ImportQuiet
        /\ SerializerQuiet
        /\ ErrorQuiet
        /\ UtilQuiet
        /\ StreamQuiet
        /\ LogQuiet

NextGovernor ==
    \/ \E size_kb \in SizeKbs : set_max_response_size(size_kb)
    \/ \E data \in Payloads, limit \in LimitArgs : CheckResponseSize(data, limit)

SpecGovernor == InitGovernor /\ [][NextGovernor]_vars

InitTools ==
    TransportInit /\ ClassifyQuiet /\ GovernorInit /\ ToolInit /\ ImportQuiet
        /\ SerializerQuiet
        /\ ErrorQuiet
        /\ UtilQuiet
        /\ StreamQuiet
        /\ LogQuiet

NextTools ==
    \/ \E size_kb \in SizeKbs : ConfigureLimit(size_kb)
    \/ \E tool \in AllTools, data \in ToolPayloads, failed \in BOOLEAN :
          \/ handle_script_tool(tool, data, failed)
          \/ handle_datasource_type_tool(tool, data, failed)
          \/ handle_activator_type_tool(tool, data, failed)
          \/ handle_reference_tool(tool, data, failed)
          \/ \E config \in Configs, scr_id \in ScrIds, failure \in LogFailures :
                /\ failed = (failure # "none")
                /\ handle_log_tool(tool, scr_id, data, failure, config)
          \/ \E branch \in Branches(tool) :
                handle_sync_tool(tool, branch, data, failed)

SpecTools == InitTools /\ [][NextTools]_vars

InitImport ==
    TransportInit /\ ClassifyQuiet /\ ImportLimitInit /\ ToolInit /\ ImportInit
        /\ SerializerQuiet
        /\ ErrorQuiet
        /\ UtilQuiet
        /\ StreamQuiet
        /\ LogQuiet

NextImport ==
    \/ /\ import_call.pc = "idle"
       /\ \E args \in ImportArgs :
             \E order \in MethodOrders(args) : ImportStart(args, order)
    \/ \E ok \in BOOLEAN :
          \/ ListEntities(ok)
          \/ BaseWrite(ok)
          \/ ListValueTypes(ok)
          \/ ListPropertySections(ok)
          \/ ImportProperty(ok)
          \/ ImportMethod(ok)
          \/ ImportParameter(ok)
    \/ RequestRaises

SpecImport == InitImport /\ [][NextImport]_vars

InitRoundTrip ==
    TransportInit /\ ClassifyQuiet /\ GovernorInit /\ ToolInit /\ ImportQuiet
        /\ SerializerInit
        /\ ErrorQuiet
        /\ UtilQuiet
        /\ StreamQuiet
        /\ LogQuiet

NextRoundTrip ==
    \/ /\ round_trip.pc = "idle"
       /\ \E now \in ExportTimes :
             \/ \E entity \in ScriptRecords : Serialize("script", entity, now)
             \/ \E entity \in ActivatorTypeRecords :
                   Serialize("activator_type", entity, now)
             \/ \E entity \in DatasourceTypeRecords :
                   Serialize("datasource_type", entity, now)
    \/ DeserializeScript
    \/ DeserializeActivatorType
    \/ DeserializeDatasourceType

SpecRoundTrip == InitRoundTrip /\ [][NextRoundTrip]_vars

\* The error details: one failed response on either path.
InitErrors ==
    TransportInit /\ ClassifyQuiet /\ GovernorInit /\ ToolInit /\ ImportQuiet
        /\ SerializerQuiet
        /\ ErrorQuiet
        /\ UtilQuiet
        /\ StreamQuiet
        /\ LogQuiet

NextErrors ==
    \/ \E response \in ErrorResponses : ReportRequestError(response)
    \/ \E response \in ErrorResponses : ReportRefreshError(response)

SpecErrors == InitErrors /\ [][NextErrors]_vars

\* The paths: one call of build_folder_paths or build_item_paths.
InitPaths ==
    TransportInit /\ ClassifyQuiet /\ GovernorInit /\ ToolInit /\ ImportQuiet
        /\ SerializerQuiet
        /\ ErrorQuiet
        /\ UtilQuiet
        /\ StreamQuiet
        /\ LogQuiet

NextPaths ==
    \/ /\ UtilQuiet
       /\ \E folders \in FolderLists, include_root \in BOOLEAN :
              BuildFolderPaths(folders, include_root)
    \/ /\ UtilQuiet
       /\ \E items \in ItemLists, folders \in PathedFolderLists :
              BuildItemPaths(items, folders)

SpecPaths == InitPaths /\ [][NextPaths]_vars

\* The code search: one call of search_in_code.
InitSearch ==
    TransportInit /\ ClassifyQuiet /\ GovernorInit /\ ToolInit /\ ImportQuiet
        /\ SerializerQuiet
        /\ ErrorQuiet
        /\ UtilQuiet
        /\ StreamQuiet
        /\ LogQuiet

NextSearch ==
    \E items \in SearchItemLists, query \in Queries,
       case_sensitive \in BOOLEAN,
       field \in {<<"code", FALSE>>, <<"code", TRUE>>, <<"name", FALSE>>} :
        SearchInCode(items, query, field[1], case_sensitive, field[2])

SpecSearch == InitSearch /\ [][NextSearch]_vars


\* The log stream: one stream_sse call and the clock.
InitStream ==
    TransportInit /\ ClassifyQuiet /\ GovernorInit /\ ToolInit /\ ImportQuiet
        /\ SerializerQuiet
        /\ ErrorQuiet
        /\ UtilQuiet
        /\ StreamQuiet
        /\ LogQuiet

NextStream ==
    \/ \E timeout \in Timeouts : StreamSse(timeout)
    \/ StreamClock
    \/ StreamConnect
    \/ \E status \in StreamStatuses : StreamConnected(status)
    \/ \E response \in RefreshResponses : StreamRefreshResponse(response)
    \/ StreamHeadersRenewed
    \/ StreamRefreshRequestError
    \/ \E is_data \in BOOLEAN : StreamLine(is_data)
    \/ StreamEnd
    \/ StreamReadTimeout
    \/ StreamRequestError

SpecStream == InitStream /\ [][NextStream]_vars


\* One session: request() calls made one after the other, and one stream_sse
\* call, on the same client; the stream's clock stands still.
InitSession ==
    TransportInit /\ ClassifyQuiet /\ GovernorInit /\ ToolInit /\ ImportQuiet
        /\ SerializerQuiet
        /\ ErrorQuiet
        /\ UtilQuiet
        /\ StreamQuiet
        /\ LogQuiet

NextSession ==
    \/ /\ NoCallInFlight
       /\ \E c \in Calls, req \in Requests : RequestStart(c, req)
    \/ \E c \in Calls, response \in RequestResponses : FirstResponse(c, response)
    \/ \E c \in Calls, response \in RefreshResponses : RefreshResponse(c, response)
    \/ \E c \in Calls : RecreateClose(c)
    \/ \E c \in Calls : RecreateAndRetry(c)
    \/ \E c \in Calls, response \in RequestResponses : RetryResponse(c, response)
    \/ \E timeout \in Timeouts : StreamSse(timeout)
    \/ StreamConnect
    \/ \E status \in StreamStatuses : StreamConnected(status)
    \/ \E response \in RefreshResponses : StreamRefreshResponse(response)
    \/ StreamHeadersRenewed
    \/ StreamEnd

SpecSession == InitSession /\ [][NextSession]_vars

InitLog ==
    TransportInit /\ ClassifyQuiet /\ GovernorInit /\ ToolInit /\ ImportQuiet
        /\ SerializerQuiet
        /\ ErrorQuiet
        /\ UtilQuiet
        /\ StreamQuiet
        /\ LogQuiet

\* The tool awaits the request of get_script_log_url.
LogAwaitsUrl == log_call.pc = "url"

\* The tool awaits the stream, every event it was handed consumed.
LogAwaitsStream ==
    log_call.pc = "streaming" /\ stream.events = log_call.consumed

NextLog ==
    \/ /\ log_call.pc = "idle"
       /\ \E size_kb \in LogSizeKbs : ConfigureLimit(size_kb)
    \/ /\ size_kb_set # None
       /\ \E arguments \in LogArguments, config \in Configs :
             GetScriptExecutionLog(arguments, config)
    \/ /\ LogAwaitsUrl
       /\ RequestStart(LogCaller, LogUrlRequest)
    \/ /\ LogAwaitsUrl
       /\ \E response \in LogUrlResponses : FirstResponse(LogCaller, response)
    \/ /\ LogAwaitsUrl
       /\ \E response \in LogRefreshResponses :
             RefreshResponse(LogCaller, response)
    \/ /\ LogAwaitsUrl
       /\ RecreateClose(LogCaller)
    \/ /\ LogAwaitsUrl
       /\ RecreateAndRetry(LogCaller)
    \/ /\ LogAwaitsUrl
       /\ \E response \in LogUrlResponses : RetryResponse(LogCaller, response)
    \/ LogUrl
    \/ /\ log_call.pc \in {"streaming", "lines"}
       /\ StreamClock
    \/ /\ LogAwaitsStream
       /\ StreamConnect
    \/ /\ LogAwaitsStream
       /\ \E status \in StreamStatuses : StreamConnected(status)
    \/ /\ LogAwaitsStream
       /\ \E response \in LogRefreshResponses : StreamRefreshResponse(response)
    \/ /\ LogAwaitsStream
       /\ StreamHeadersRenewed
    \/ /\ LogAwaitsStream
       /\ StreamRefreshRequestError
    \/ /\ LogAwaitsStream
       /\ \E is_data \in BOOLEAN : StreamLine(is_data)
    \/ /\ LogAwaitsStream
       /\ StreamEnd
    \/ /\ LogAwaitsStream
       /\ StreamReadTimeout
    \/ /\ LogAwaitsStream
       /\ StreamRequestError
    \/ \E data \in EventData : LogData(data)
    \/ LogLine
    \/ LogStreamOver
    \/ LogClock
    \/ LogWake
    \/ StreamFinalize
    \/ StreamFinalized

SpecLog == InitLog /\ [][NextLog]_vars

\* The passing of time in a run of the log tool.
LogTime ==
    \/ /\ log_call.pc \in {"streaming", "lines"}
       /\ StreamClock
    \/ LogClock

\* Every network operation returns or times out and the clock advances.
SpecLogFair ==
    InitLog /\ [][NextLog]_vars /\ WF_vars(LogTime) /\ WF_vars(NextLog)

====
